---- MODULE Spec2Model ----
(***************************************************************************)
(* A model of the hatchet call-path query subsystem: the Query builder     *)
(* (query/query.py), the compound queries (query/compound.py) and the      *)
(* candidate-indexed, memoized QueryEngine (query/v2/engine.py).           *)
(*                                                                         *)
(* A graph is a forest over the nodes 1..n given by a parent function      *)
(* (0 = root); a node's traversal order is its number.  The attribute      *)
(* table has one row per node holding its "name".  A predicate is one of   *)
(* a small family of row functions.                                        *)
(***************************************************************************)
EXTENDS Integers, Sequences, FiniteSets, TLC

\* ------------------------------------------------------------------ bounds
MaxNodes == 3
MaxLen == 3
\* the builder: the largest integer quantifier and the longest pattern extended
MaxQuant == 2
MaxPatLen == 3
\* the longest list handed to ObjectQuery
MaxPathLen == 2
\* the graphs of the specifications that evaluate several queries
SmallNodes == 2
\* the most subqueries of a compound query, and the most calls on one engine
MaxSubs == 3
MaxCalls == 3
\* conditions in a list of conditions for one attribute
MaxConds == 2
\* the longest pattern applied in every multi_index_mode
MaxElems == 2
\* the most conditions in a WHERE clause
MaxPreds == 3

\* ------------------------------------------------------------- input data
Names == {"a", "b"}

\* predicate family: the default predicate (lambda row: True), name
\* equality, and a predicate that is ill-typed for the table (it raises
\* InvalidQueryFilter when evaluated on the table)
GoodPreds == {"any", "a", "b"}
IllPred == "ill"

AvailableModes == {"off", "any", "all"}

\* forests over 1..k in which every node's parent has a smaller number
Forests(k) == {f \in [1..k -> 0..(k - 1)] : \A n \in 1..k : f[n] < n}

Element(q, p) == [q |-> q, p |-> p]

Elements(preds) == {Element(q, p) : q \in {".", "*"}, p \in preds}

RECURSIVE SeqsUpTo(_, _)
SeqsUpTo(S, n) ==
  IF n = 0 THEN {<<>>}
  ELSE LET shorter == SeqsUpTo(S, n - 1)
       IN shorter \cup {Append(s, x) : s \in {t \in shorter : Len(t) = n - 1}, x \in S}

Patterns(preds, n) == SeqsUpTo(Elements(preds), n) \ {<<>>}

\* a Query object (its query_pattern) and a CompoundQuery object (its class
\* and its subqueries)
QueryOf(pat) == [cls |-> "Query", query_pattern |-> pat, subqueries |-> <<>>]
CompoundOf(cls, subs) == [cls |-> cls, query_pattern |-> <<>>, subqueries |-> subs]

NaryClasses == {"ConjunctionQuery", "DisjunctionQuery", "ExclusiveDisjunctionQuery"}
CompoundClasses == NaryClasses \cup {"NegationQuery"}

\* ---------------------------------------------------------------- state
VARIABLES
  parent,       \* the graph: node -> parent (0 for a root)
  dframe,       \* the attribute table of the graph
  query,        \* the query handed to the engine
  mode,         \* the multi_index_mode handed to the engine
  candidates,   \* QueryEngine.candidates
  path_cache,   \* QueryEngine.path_cache
  result,       \* what the last call returned (or raised)
  pc,           \* where the caller is: the last call made
  hist          \* history (not program state): what the claims compare with

vars == <<parent, dframe, query, mode, candidates, path_cache, result, pc, hist>>

\* ---------------------------------------------------------------- graph
GraphNodes(par) == DOMAIN par

Children(par, n) == {c \in DOMAIN par : par[c] = n}

SeqSet(s) == {s[j] : j \in 1..Len(s)}

RECURSIVE SortedSeq(_)
SortedSeq(S) ==
  IF S = {} THEN <<>>
  ELSE LET m == CHOOSE x \in S : \A y \in S : x <= y
       IN <<m>> \o SortedSeq(S \ {m})

\* ---------------------------------------------------------------- table
\* A row of the attribute table: a string column "name" and a numeric column
\* "time".
Row(name, time) == [name |-> name, time |-> time]

\* Node._depth: the distance of a node from its root
RECURSIVE Depth(_, _)
Depth(par, n) == IF par[n] = 0 THEN 0 ELSE 1 + Depth(par, par[n])

\* the Node objects of the table's index: _depth, _hatchet_nid and children
NodeOf(par, n) == [depth |-> Depth(par, n), hatchet_nid |-> n - 1, children |-> Children(par, n)]

\* The attribute table of a graph.  multi says whether its index is a
\* MultiIndex (node, rank); rows[n] are the rows of node n, one per rank (one
\* row when the index is not a MultiIndex).
Table(par, multi, rows) ==
  [multi |-> multi, index |-> [n \in DOMAIN par |-> NodeOf(par, n)], rows |-> rows]

SingleIndexed(par, names) == Table(par, FALSE, [n \in DOMAIN par |-> <<Row(names[n], 0)>>])

\* the row of a node in a table whose index is not a MultiIndex
RowOf(df, n) == df.rows[n][1]

\* ------------------------------------------------------------- predicates
PredHolds(p, row) == IF p = "any" THEN TRUE ELSE row.name = p

\* What pred(dframe) gives: a boolean per row of the table, or an exception.
\* A predicate that returns one boolean for the whole table (lambda row: True)
\* counts for every row.
Series(vals) == [err |-> "none", vals |-> vals]
Scalar(b, df) == Series([n \in DOMAIN df.rows |-> [r \in 1..Len(df.rows[n]) |-> b]])
PredicateRaised(e) == [err |-> e, vals |-> <<>>]

\* pred(dframe) for the predicates given as functions
FunctionOutput(p, df) ==
  IF p = IllPred THEN PredicateRaised("InvalidQueryFilter")
  ELSE IF p = "any" THEN Scalar(TRUE, df)
  ELSE Series([n \in DOMAIN df.rows |->
                 [r \in 1..Len(df.rows[n]) |-> PredHolds(p, df.rows[n][r])]])

\* --------------------------------- _process_predicate (v2/object_dialect.py)
\* A condition of an attribute filter: a real number, a string (one that
\* starts with a comparison operator, "op num", or another string), a list or
\* tuple of conditions, or a value of another type.
RealCond(k) == [type |-> "Real", num |-> k, op |-> "", str |-> "", items |-> <<>>]
CompStr(op, k) == [type |-> "str", num |-> k, op |-> op, str |-> "", items |-> <<>>]
RegexStr(t) == [type |-> "str", num |-> 0, op |-> "", str |-> t, items |-> <<>>]
ListCond(items) == [type |-> "list", num |-> 0, op |-> "", str |-> "", items |-> items]
OtherCond == [type |-> "other", num |-> 0, op |-> "", str |-> "", items |-> <<>>]

\* an item of the dict attr_filter, in the order of attr_filter.items()
Item(metric, cond) == [metric |-> metric, cond |-> cond]

\* the columns of the table and their dtypes
Columns == {"name", "time"}
IsNumericDtype(metric) == metric = "time"
IsStringDtype(metric) == metric = "name"

\* cond.lower().startswith(compops)
StartsWithCompop(cond) == cond.type = "str" /\ cond.op # ""

CompareOp(op, x, k) ==
  CASE op = "<" -> x < k
    [] op = ">" -> x > k
    [] op = "==" -> x = k
    [] op = ">=" -> x >= k
    [] op = "<=" -> x <= k
    [] op = "!=" -> x # k

\* n._depth, n._hatchet_nid or df[metric] for row r of node n
AttrValue(attr, df, n, r) ==
  IF attr = "depth" THEN df.index[n].depth
  ELSE IF attr = "node_id" THEN df.index[n].hatchet_nid
  ELSE df.rows[n][r][attr]

\* the pandas expressions that apply_predicate collects, by their value: a
\* boolean per row, or an expression whose evaluation raises TypeError
Expr(vals) == [raises |-> "none", vals |-> vals]
RaisingExpr(e) == [raises |-> e, vals |-> <<>>]

CompareExpr(attr, op, k, df) ==
  Expr([n \in DOMAIN df.rows |->
          [r \in 1..Len(df.rows[n]) |-> CompareOp(op, AttrValue(attr, df, n, r), k)]])

\* lambda n: len(n.children) == 0
LeafExpr(df) ==
  Expr([n \in DOMAIN df.rows |-> [r \in 1..Len(df.rows[n]) |-> df.index[n].children = {}]])

\* df[metric].str.match(r"<cond>\Z"): the strings are matched as literals
MatchExpr(metric, cond, df) ==
  Expr([n \in DOMAIN df.rows |->
          [r \in 1..Len(df.rows[n]) |-> cond.op = "" /\ df.rows[n][r][metric] = cond.str]])

Collected(exprs) == [err |-> "none", exprs |-> exprs]
FilterRaised == [err |-> "InvalidQueryFilter", exprs |-> <<>>]

\* the loops over a list or tuple of conditions (lines 39-57, 74-88, 107-121).
\* For depth, a string subcondition is formatted with the whole list (line 46),
\* which gives `n._depth [...]`: a TypeError when the expression is evaluated.
RECURSIVE SubcondLoop(_, _, _, _)
SubcondLoop(attr, subconds, df, exprs) ==
  IF subconds = <<>> THEN Collected(exprs)
  ELSE LET subcond == Head(subconds)
       IN IF attr = "depth" /\ subcond.type = "Real" /\ subcond.num = -1
            THEN SubcondLoop(attr, Tail(subconds), df, Append(exprs, LeafExpr(df)))
          ELSE IF StartsWithCompop(subcond)
            THEN SubcondLoop(attr, Tail(subconds), df,
                   Append(exprs, IF attr = "depth" THEN RaisingExpr("TypeError")
                                 ELSE CompareExpr(attr, subcond.op, subcond.num, df)))
          ELSE IF subcond.type = "Real"
            THEN SubcondLoop(attr, Tail(subconds), df,
                   Append(exprs, CompareExpr(attr, "==", subcond.num, df)))
          ELSE FilterRaised

\* the branches for depth, node_id and a numeric column (lines 24-63, 64-94,
\* 97-127)
NumericExprs(attr, cond, df, exprs) ==
  IF StartsWithCompop(cond) THEN Collected(Append(exprs, CompareExpr(attr, cond.op, cond.num, df)))
  ELSE IF cond.type = "Real"
    THEN IF attr = "depth" /\ cond.num = -1 THEN Collected(Append(exprs, LeafExpr(df)))
         ELSE Collected(Append(exprs, CompareExpr(attr, "==", cond.num, df)))
  ELSE IF cond.type = "list" THEN SubcondLoop(attr, cond.items, df, exprs)
  ELSE FilterRaised

\* eval(" & ".join(pandas_exprs))
EvalConjunction(exprs, df) ==
  IF \E j \in 1..Len(exprs) : exprs[j].raises # "none"
    THEN PredicateRaised(exprs[CHOOSE j \in 1..Len(exprs) : exprs[j].raises # "none"
                                 /\ \A i \in 1..(j - 1) : exprs[i].raises = "none"].raises)
  ELSE Series([n \in DOMAIN df.rows |->
                 [r \in 1..Len(df.rows[n]) |-> \A j \in 1..Len(exprs) : exprs[j].vals[n][r]]])

\* apply_predicate(df) (lines 21-142): the loop over attr_filter.items()
RECURSIVE ApplyPredicateLoop(_, _, _)
ApplyPredicateLoop(items, df, exprs) ==
  IF items = <<>>
    THEN IF Len(exprs) = 0 THEN PredicateRaised("InvalidQueryFilter")
         ELSE EvalConjunction(exprs, df)
  ELSE LET metric == Head(items).metric
           cond == Head(items).cond
       IN IF metric \in {"depth", "node_id"} \/ (metric \in Columns /\ IsNumericDtype(metric))
            THEN LET c == NumericExprs(metric, cond, df, exprs)
                 IN IF c.err # "none" THEN PredicateRaised(c.err)
                    ELSE ApplyPredicateLoop(Tail(items), df, c.exprs)
          ELSE IF metric \notin Columns THEN Scalar(FALSE, df)
          ELSE IF IsStringDtype(metric) /\ cond.type = "str"
            THEN ApplyPredicateLoop(Tail(items), df, Append(exprs, MatchExpr(metric, cond, df)))
          ELSE PredicateRaised("InvalidQueryFilter")

ApplyPredicate(attr_filter, df) == ApplyPredicateLoop(attr_filter, df, <<>>)

\* ------------------------- _predicate_builder (v2/string_dialect.py)
\* The pieces of pred_expr, a list of strings of Python code: the operators
\* "~", "&", "|" and the code of a single condition (an atom), named by the
\* grammar rule it was generated from.
Tok(t) == [tok |-> t, cls |-> "", metric |-> "", op |-> "", num |-> 0, str |-> ""]
StringEqCode(metric, t) ==
  [tok |-> "atom", cls |-> "StringEq", metric |-> metric, op |-> "", num |-> 0, str |-> t]
NumIneqCode(metric, op, k) ==
  [tok |-> "atom", cls |-> "NumIneq", metric |-> metric, op |-> op, num |-> k, str |-> ""]
LeafCode == [tok |-> "atom", cls |-> "Leaf", metric |-> "", op |-> "", num |-> 0, str |-> ""]
TrueSeriesCode == [tok |-> "atom", cls |-> "True", metric |-> "", op |-> "", num |-> 0, str |-> ""]

\* an entry of the dict type_checks: the metric and the code of its check
TypeCheck(metric, check) == [metric |-> metric, check |-> check]

\* lines 127-131: full_check_bool and eval(check), for each check in turn;
\* df[metric] of a column that the table does not have raises KeyError
RECURSIVE CheckLoop(_, _)
CheckLoop(checks, full_check_bool) ==
  IF checks = <<>> THEN [err |-> "none", ok |-> full_check_bool]
  ELSE IF ~full_check_bool THEN CheckLoop(Tail(checks), FALSE)
  ELSE IF Head(checks).metric \notin Columns THEN [err |-> "KeyError", ok |-> FALSE]
  ELSE CheckLoop(Tail(checks),
                 IF Head(checks).check = "is_string_dtype" THEN IsStringDtype(Head(checks).metric)
                 ELSE IsNumericDtype(Head(checks).metric))

\* the code of IS LEAF calls .apply on df.index.get_level_values(0), a pandas
\* Index, which has no method apply (lines 278-280; the object dialect calls
\* .to_series() first)
AtomRaises(a) == a.tok = "atom" /\ a.cls = "Leaf"

\* the value of the code of a single condition on row r of node n
AtomValue(a, df, n, r) ==
  IF a.cls = "True" THEN TRUE
  ELSE IF a.cls = "StringEq" THEN df.rows[n][r][a.metric] = a.str
  ELSE CompareOp(a.op, df.rows[n][r][a.metric], a.num)

\* eval(" ".join(pred_expr)): Python parses the joined code, "~" binding
\* tighter than "&" and "&" tighter than "|"; code that is not an expression
\* raises SyntaxError
RECURSIVE SplitOn(_, _, _, _)
SplitOn(tokens, sep, cur, acc) ==
  IF tokens = <<>> THEN Append(acc, cur)
  ELSE IF Head(tokens).tok = sep THEN SplitOn(Tail(tokens), sep, <<>>, Append(acc, cur))
  ELSE SplitOn(Tail(tokens), sep, Append(cur, Head(tokens)), acc)

OrOperands(tokens) == SplitOn(tokens, "|", <<>>, <<>>)
AndOperands(tokens) == SplitOn(tokens, "&", <<>>, <<>>)

IsUnaryExpr(f) ==
  /\ Len(f) >= 1
  /\ f[Len(f)].tok = "atom"
  /\ \A j \in 1..(Len(f) - 1) : f[j].tok = "~"

IsExpression(tokens) ==
  \A i \in 1..Len(OrOperands(tokens)) :
    \A j \in 1..Len(AndOperands(OrOperands(tokens)[i])) :
      IsUnaryExpr(AndOperands(OrOperands(tokens)[i])[j])

UnaryValue(f, df, n, r) ==
  IF (Len(f) - 1) % 2 = 0 THEN AtomValue(f[Len(f)], df, n, r)
  ELSE ~AtomValue(f[Len(f)], df, n, r)

EvalExpression(tokens, df, n, r) ==
  \E i \in 1..Len(OrOperands(tokens)) :
    \A j \in 1..Len(AndOperands(OrOperands(tokens)[i])) :
      UnaryValue(AndOperands(OrOperands(tokens)[i])[j], df, n, r)

\* _predicate(df) (lines 126-132): a failed type check returns False
StringPredicate(type_checks, pred_expr, df) ==
  LET c == CheckLoop(type_checks, TRUE)
  IN IF c.err # "none" THEN PredicateRaised(c.err)
     ELSE IF ~c.ok THEN Scalar(FALSE, df)
     ELSE IF ~IsExpression(pred_expr) THEN PredicateRaised("SyntaxError")
     ELSE IF \E j \in 1..Len(pred_expr) : AtomRaises(pred_expr[j])
       THEN PredicateRaised("AttributeError")
     ELSE Series([n \in DOMAIN df.rows |->
                    [r \in 1..Len(df.rows[n]) |-> EvalExpression(pred_expr, df, n, r)]])

\* pred(dframe) for the predicate of a pattern element: a function, the
\* closure apply_predicate over its attr_filter (object dialect), or the
\* closure _predicate over its type_checks and pred_expr (string dialect)
PredicateOutput(e, df) ==
  IF e.p = "apply_predicate" THEN ApplyPredicate(e.attr_filter, df)
  ELSE IF e.p = "_predicate" THEN StringPredicate(e.type_checks, e.pred_expr, df)
  ELSE FunctionOutput(e.p, df)

\* ------------------------------------------------------------ path values
\* A value of _find_matches_from_node is None or a list of items.  An item
\* is a tuple of nodes, or (the value stored by `[(curr_node)]`) a bare node.
NoneVal == [none |-> TRUE, items |-> {}]
Tup(s) == [tup |-> TRUE, nodes |-> s]
Bare(n) == [tup |-> FALSE, nodes |-> <<n>>]
ListVal(items) == [none |-> FALSE, items |-> items]

EmptyCache == [k \in {} |-> NoneVal]

CachePut(cache, n, i, v) == (<<n, i>> :> v) @@ cache

Ret(v, cache) == [err |-> FALSE, none |-> v.none, items |-> v.items, cache |-> cache]
Raise(cache) == [err |-> TRUE, none |-> FALSE, items |-> {}, cache |-> cache]

\* hatchet's Node (hatchet/node.py) defines no __iter__: iterating a node, or
\* tuple(node), raises TypeError
NodeIsIterable == FALSE

\* -------------------------------------------------- QueryEngine (v2/engine.py)
\* The engine's positions are 1-based here: position i is query_pattern[i-1].
RECURSIVE FindMatches(_, _, _, _, _, _)
RECURSIVE ChildLoop(_, _, _, _, _, _, _)

\* the loop over curr_node.children (lines 155-173): kids is what is left to
\* visit, acc is child_paths
ChildLoop(par, pat, cands, kids, nextIdx, cache, acc) ==
  IF kids = <<>> THEN [err |-> FALSE, paths |-> acc, cache |-> cache]
  ELSE LET sub == FindMatches(par, pat, cands, Head(kids), nextIdx, cache)
       IN IF sub.err THEN [err |-> TRUE, paths |-> {}, cache |-> sub.cache]
          ELSE IF sub.none
            THEN ChildLoop(par, pat, cands, Tail(kids), nextIdx, sub.cache, acc)
          ELSE IF (\E it \in sub.items : ~it.tup) /\ ~NodeIsIterable
            THEN [err |-> TRUE, paths |-> {}, cache |-> sub.cache]
          ELSE ChildLoop(par, pat, cands, Tail(kids), nextIdx, sub.cache,
                         acc \cup {it.nodes : it \in sub.items})

\* a search that stores the completions of a node but not the negative result
Descend_NegativeNotStored(par, pat, cands, n, i, nextIdx, cache) ==
  LET loop == ChildLoop(par, pat, cands, SortedSeq(Children(par, n)), nextIdx, cache, {})
  IN IF loop.err THEN Raise(loop.cache)
     ELSE IF loop.paths = {} THEN Ret(NoneVal, loop.cache)
     ELSE LET valid == ListVal({Tup(<<n>> \o p) : p \in loop.paths})
          IN Ret(valid, CachePut(loop.cache, n, i, valid))

\* lines 155-186: recurse into the children at nextIdx, then prepend curr_node
Descend(par, pat, cands, n, i, nextIdx, cache) ==
  LET loop == ChildLoop(par, pat, cands, SortedSeq(Children(par, n)), nextIdx, cache, {})
  IN IF loop.err THEN Raise(loop.cache)
     ELSE IF loop.paths = {}
       THEN Ret(NoneVal, CachePut(loop.cache, n, i, NoneVal))
     ELSE LET valid == ListVal({Tup(<<n>> \o p) : p \in loop.paths})
          IN Ret(valid, CachePut(loop.cache, n, i, valid))

\* the value written to the cache for a single-node completion (lines 118, 121):
\* `[(curr_node)]` is a list holding the node itself, not a 1-tuple
SingleCached(n) == ListVal({Bare(n)})

\* QueryEngine._find_matches_from_node
FindMatches(par, pat, cands, n, i, cache) ==
  IF <<n, i>> \in DOMAIN cache THEN Ret(cache[<<n, i>>], cache)
  ELSE IF pat[i].q = "."
    THEN IF n \notin cands[i]
           THEN Ret(NoneVal, CachePut(cache, n, i, NoneVal))
         ELSE IF i = Len(pat)
           THEN Ret(ListVal({Tup(<<n>>)}), CachePut(cache, n, i, SingleCached(n)))
         ELSE IF i = Len(pat) - 1 /\ pat[i + 1].q = "*"
           THEN Ret(ListVal({Tup(<<n>>)}), CachePut(cache, n, i, SingleCached(n)))
         ELSE Descend(par, pat, cands, n, i, i + 1, cache)
  ELSE \* "*"
         IF i < Len(pat) /\ n \in cands[i + 1]
           THEN FindMatches(par, pat, cands, n, i + 1, cache)
         ELSE IF n \notin cands[i]
           THEN IF i < Len(pat)
                  THEN Ret(NoneVal, CachePut(cache, n, i, NoneVal))
                  ELSE Ret(ListVal({Tup(<<>>)}), CachePut(cache, n, i, ListVal({Tup(<<>>)})))
         ELSE IF i = Len(pat) /\ Children(par, n) = {}
           THEN Ret(ListVal({Tup(<<n>>)}), cache)
         ELSE Descend(par, pat, cands, n, i, i, cache)

\* what apply returns: a list of nodes, or the exception it raised
Returned(nodes) == [err |-> "none", nodes |-> nodes]
Raised(e) == [err |-> e, nodes |-> <<>>]

\* a set of matches that keeps the nodes of the latest start only
AddAll_LatestStartOnly(matches, items) == UNION {{it.nodes[j] : j \in 1..Len(it.nodes)} : it \in items}

\* the set `matches` of _apply_impl after adding every node of every path
AddAll(matches, items) == matches \cup UNION {{it.nodes[j] : j \in 1..Len(it.nodes)} : it \in items}

\* the loop of _apply_impl over sorted(self.candidates[0], key=traversal_order)
RECURSIVE StartLoop(_, _, _, _, _, _)
StartLoop(par, pat, cands, starts, cache, matches) ==
  IF starts = <<>> THEN [res |-> Returned(SortedSeq(matches)), cache |-> cache]
  ELSE LET sm == FindMatches(par, pat, cands, Head(starts), 1, cache)
       IN IF sm.err THEN [res |-> Raised("TypeError"), cache |-> sm.cache]
          ELSE IF sm.none THEN StartLoop(par, pat, cands, Tail(starts), sm.cache, matches)
          ELSE IF (\E it \in sm.items : ~it.tup) /\ ~NodeIsIterable
            THEN [res |-> Raised("TypeError"), cache |-> sm.cache]
          ELSE StartLoop(par, pat, cands, Tail(starts), sm.cache, AddAll(matches, sm.items))

\* QueryEngine._apply_impl: self.candidates[0] of an empty list is an IndexError
ApplyImpl(par, pat, cands, cache) ==
  IF Len(cands) = 0 THEN [res |-> Raised("IndexError"), cache |-> cache]
  ELSE StartLoop(par, pat, cands, SortedSeq(cands[1]), cache, {})

\* lines 67-69 of QueryEngine._init: the predicates are called on the table in
\* pattern order; the first that raises ends _init
RECURSIVE PredicateOutputs(_, _, _)
PredicateOutputs(pat, df, outs) ==
  IF pat = <<>> THEN [err |-> "none", outs |-> outs]
  ELSE LET po == PredicateOutput(Head(pat), df)
       IN IF po.err # "none" THEN [err |-> po.err, outs |-> outs]
          ELSE PredicateOutputs(Tail(pat), df, Append(outs, po.vals))

\* an aggregation that takes 'any' whatever the mode
Aggregate_AnyWhateverMode(vals, m) == \E r \in 1..Len(vals) : vals[r]

\* lines 82-84: groupby(["node"]).aggregate(multi_index_mode) over a node's rows
Aggregate(vals, m) ==
  IF m = "any" THEN \E r \in 1..Len(vals) : vals[r] ELSE \A r \in 1..Len(vals) : vals[r]

\* _init with the values of the first predicate taken for every element
CandidatesOf_FirstPredicateEverywhere(df, outs, m) ==
  [i \in 1..Len(outs) |->
     {n \in DOMAIN df.rows : IF df.multi THEN Aggregate(outs[1][n], m) ELSE outs[1][n][1]}]

\* lines 74-87: one candidate list per pattern element
CandidatesOf(df, outs, m) ==
  [i \in 1..Len(outs) |->
     {n \in DOMAIN df.rows : IF df.multi THEN Aggregate(outs[i][n], m) ELSE outs[i][n][1]}]

\* _init with the validation of the mode moved after the predicates
EngineInit_ModeCheckedLast(cands, df, pat, m) ==
  LET po == PredicateOutputs(pat, df, <<>>)
  IN IF po.err # "none" THEN [err |-> po.err, candidates |-> cands]
     ELSE IF m \notin AvailableModes THEN [err |-> "ValueError", candidates |-> cands]
     ELSE IF Len(pat) = 0 THEN [err |-> "ValueError", candidates |-> cands]
     ELSE IF df.multi /\ m = "off"
       THEN [err |-> "MultiIndexModeMismatch", candidates |-> cands]
     ELSE [err |-> "none", candidates |-> cands \o CandidatesOf(df, po.outs, m)]

\* QueryEngine._init: [err, candidates]
EngineInit(cands, df, pat, m) ==
  IF m \notin AvailableModes THEN [err |-> "ValueError", candidates |-> cands]
  ELSE LET po == PredicateOutputs(pat, df, <<>>)
       IN IF po.err # "none" THEN [err |-> po.err, candidates |-> cands]
          ELSE IF Len(pat) = 0 THEN [err |-> "ValueError", candidates |-> cands]
          ELSE IF df.multi /\ m = "off"
            THEN [err |-> "MultiIndexModeMismatch", candidates |-> cands]
          ELSE [err |-> "none", candidates |-> cands \o CandidatesOf(df, po.outs, m)]

\* a _reset that clears the candidates only
EngineReset_KeepsPathCache(eng) == [candidates |-> <<>>, path_cache |-> eng.path_cache]

\* QueryEngine._reset
EngineReset(eng) == [candidates |-> <<>>, path_cache |-> EmptyCache]

\* QueryEngine.apply on a Query (lines 42-45): [res, candidates, path_cache]
ApplyQuery(eng, par, df, pat, m) ==
  LET r == EngineReset(eng)
      ini == EngineInit(r.candidates, df, pat, m)
  IN IF ini.err # "none"
       THEN [res |-> Raised(ini.err), candidates |-> ini.candidates, path_cache |-> r.path_cache]
     ELSE LET out == ApplyImpl(par, pat, ini.candidates, r.path_cache)
          IN [res |-> out.res, candidates |-> ini.candidates, path_cache |-> out.cache]

\* ------------------------------------------- compound queries (compound.py)
\* Graph.traverse(): every node of the graph exactly once
Traverse(par) == DOMAIN par

\* ConjunctionQuery._apply_op_to_results
ConjunctionOp(results) ==
  {n \in SeqSet(results[1]) : \A k \in 2..Len(results) : n \in SeqSet(results[k])}

\* DisjunctionQuery._apply_op_to_results
DisjunctionOp(results) == UNION {SeqSet(results[k]) : k \in 1..Len(results)}

SymmetricDifference(A, B) == (A \ B) \cup (B \ A)

\* an exclusive disjunction taken as 'in some but not in all' of the results
ExclusiveDisjunctionOp_InSomeNotAll(results) ==
  UNION {SeqSet(results[k]) : k \in 1..Len(results)}
    \ {n \in SeqSet(results[1]) : \A k \in 2..Len(results) : n \in SeqSet(results[k])}

\* ExclusiveDisjunctionQuery._apply_op_to_results: the fold over the results
RECURSIVE XorFold(_, _)
XorFold(xor_set, results) ==
  IF results = <<>> THEN xor_set
  ELSE XorFold(SymmetricDifference(xor_set, SeqSet(Head(results))), Tail(results))

ExclusiveDisjunctionOp(results) == XorFold({}, results)

\* a negation that does not remove the subquery's nodes
NegationOp_NoDifference(results, par) == Traverse(par)

\* NegationQuery._apply_op_to_results
NegationOp(results, par) == Traverse(par) \ SeqSet(results[1])

ApplyOpToResults(cls, results, par) ==
  SortedSeq(CASE cls = "ConjunctionQuery" -> ConjunctionOp(results)
              [] cls = "DisjunctionQuery" -> DisjunctionOp(results)
              [] cls = "ExclusiveDisjunctionQuery" -> ExclusiveDisjunctionOp(results)
              [] cls = "NegationQuery" -> NegationOp(results, par))

\* QueryEngine.apply (lines 31-57).  The engine state eng is
\* [candidates, path_cache]; the value is [res, candidates, path_cache].
RECURSIVE EngineApply(_, _, _, _, _)
RECURSIVE SubqueryLoop(_, _, _, _, _)

\* lines 47-54: the subqueries are applied in order, each by a recursive apply
\* that is given no multi_index_mode (so its default, "off")
SubqueryLoop(eng, par, df, subs, results) ==
  IF subs = <<>>
    THEN [err |-> "none", results |-> results,
          candidates |-> eng.candidates, path_cache |-> eng.path_cache]
  ELSE LET out == EngineApply(eng, par, df, Head(subs), "off")
           after == [candidates |-> out.candidates, path_cache |-> out.path_cache]
       IN IF out.res.err # "none"
            THEN [err |-> out.res.err, results |-> results,
                  candidates |-> out.candidates, path_cache |-> out.path_cache]
          ELSE SubqueryLoop(after, par, df, Tail(subs), Append(results, out.res.nodes))

EngineApply(eng, par, df, q, m) ==
  IF q.cls = "Query" THEN ApplyQuery(eng, par, df, q.query_pattern, m)
  ELSE IF q.cls \in CompoundClasses
    THEN LET loop == SubqueryLoop(eng, par, df, q.subqueries, <<>>)
         IN [res |-> IF loop.err # "none" THEN Raised(loop.err)
                     ELSE Returned(ApplyOpToResults(q.cls, loop.results, par)),
             candidates |-> loop.candidates, path_cache |-> loop.path_cache]
  ELSE [res |-> Raised("TypeError"), candidates |-> eng.candidates,
        path_cache |-> eng.path_cache]

Engine == [candidates |-> candidates, path_cache |-> path_cache]

\* QueryEngine.__init__
FreshEngine == [candidates |-> <<>>, path_cache |-> EmptyCache]

\* ----------------------------------------------------------- SpecEngine
\* one evaluation of a pattern on a graph: the inputs are drawn in Init
GraphAndTable(maxNodes) ==
  \E k \in 1..maxNodes :
    /\ parent \in Forests(k)
    /\ dframe \in {SingleIndexed(parent, names) : names \in [1..k -> Names]}

InitEngine ==
  /\ GraphAndTable(MaxNodes)
  /\ query \in {QueryOf(p) : p \in Patterns(GoodPreds, MaxLen)}
  /\ mode = "off"
  /\ candidates = <<>>
  /\ path_cache = EmptyCache
  /\ result = Returned(<<>>)
  /\ pc = "ready"
  /\ hist = <<>>

\* engine.apply(query, graph, dframe, mode)
Apply ==
  /\ pc = "ready"
  /\ LET out == EngineApply(Engine, parent, dframe, query, mode)
     IN /\ candidates' = out.candidates
        /\ path_cache' = out.path_cache
        /\ result' = out.res
  /\ pc' = "done"
  /\ UNCHANGED <<parent, dframe, query, mode, hist>>

NextEngine == Apply

SpecEngine == InitEngine /\ [][NextEngine]_vars

\* ------------------------------------------------- path semantics (claims)
\* the non-empty downward paths of a graph: each node a child of the one before
RECURSIVE DownPathsFrom(_, _)
DownPathsFrom(par, n) ==
  {<<n>>} \cup UNION {{<<n>> \o p : p \in DownPathsFrom(par, c)} : c \in Children(par, n)}

DownPaths(par) == UNION {DownPathsFrom(par, n) : n \in DOMAIN par}

\* path[j..] matches pat[i..] as a sequence: "." consumes exactly one node that
\* satisfies its predicate, "*" zero or more consecutive nodes that satisfy it
RECURSIVE MatchesFrom(_, _, _, _, _)
MatchesFrom(df, path, j, pat, i) ==
  IF i > Len(pat) THEN j > Len(path)
  ELSE IF pat[i].q = "."
    THEN j <= Len(path) /\ PredHolds(pat[i].p, RowOf(df, path[j]))
         /\ MatchesFrom(df, path, j + 1, pat, i + 1)
  ELSE \/ MatchesFrom(df, path, j, pat, i + 1)
       \/ (j <= Len(path) /\ PredHolds(pat[i].p, RowOf(df, path[j]))
           /\ MatchesFrom(df, path, j + 1, pat, i))

MatchingPaths(par, df, pat) == {p \in DownPaths(par) : MatchesFrom(df, p, 1, pat, 1)}

PathNodes(paths) == UNION {{p[j] : j \in 1..Len(p)} : p \in paths}

\* C1: whenever apply returns for a pattern, it returns exactly the nodes that
\* lie on some downward path (starting at any node) matching the pattern as a
\* sequence of "." (one node) and "*" (zero or more nodes) elements
C1_ExactlyNodesOnMatchingPaths ==
  (pc = "done" /\ result.err = "none")
    => SeqSet(result.nodes) = PathNodes(MatchingPaths(parent, dframe, query.query_pattern))

\* the engine never returns a node that lies on no matching path
C1_ReturnsOnlyNodesOnMatchingPaths ==
  (pc = "done" /\ result.err = "none")
    => SeqSet(result.nodes) \subseteq PathNodes(MatchingPaths(parent, dframe, query.query_pattern))

\* C4: apply returns normally with a duplicate-free collection of nodes of the
\* graph, and with the empty collection when no path matches anywhere
C4_ReturnsDuplicateFreeSubset ==
  pc = "done" =>
    /\ result.err = "none"
    /\ \A j, k \in 1..Len(result.nodes) : result.nodes[j] = result.nodes[k] => j = k
    /\ SeqSet(result.nodes) \subseteq GraphNodes(parent)
    /\ (MatchingPaths(parent, dframe, query.query_pattern) = {} => result.nodes = <<>>)

\* C6: when the pattern ends in a "*" with predicate P and a path v1..vm matches
\* the pattern without that element, every node of a chain of P-satisfying
\* nodes that starts at a child of vm is in the result
C6_TrailingStarChainReturned ==
  (pc = "done" /\ Len(query.query_pattern) >= 2
   /\ query.query_pattern[Len(query.query_pattern)].q = "*") =>
    LET pat == query.query_pattern
        front == SubSeq(pat, 1, Len(pat) - 1)
        P == pat[Len(pat)].p
    IN \A v \in MatchingPaths(parent, dframe, front) :
         \A chain \in UNION {DownPathsFrom(parent, c) : c \in Children(parent, v[Len(v)])} :
           (\A j \in 1..Len(chain) : PredHolds(P, RowOf(dframe, chain[j])))
             => /\ result.err = "none"
                /\ SeqSet(chain) \subseteq SeqSet(result.nodes)


\* ------------------------------------------------- Query builder (query.py)
\* A quantifier argument: an int, a str, or a value of another type.
IntQ(k) == [type |-> "int", int |-> k, str |-> ""]
StrQ(t) == [type |-> "str", int |-> 0, str |-> t]
OtherQ == [type |-> "other", int |-> 0, str |-> ""]

QuantifierArgs ==
  {IntQ(k) : k \in (-1)..MaxQuant} \cup {StrQ(t) : t \in {".", "*", "+", "x"}} \cup {OtherQ}

\* predicate arguments of the builder: callables, and a value that is not callable
BuilderPreds == {"any", "a"}
NotCallable == "notcallable"
PredicateArgs == BuilderPreds \cup {NotCallable}

Repeat(e, n) == [j \in 1..n |-> e]

\* the elements an accepted (quantifier, predicate) appends (lines 93-101)
AddNodeExpansion(quantifer, predicate) ==
  IF quantifer.type = "int" THEN Repeat(Element(".", predicate), quantifer.int)
  ELSE IF quantifer.str = "+" THEN <<Element(".", predicate), Element("*", predicate)>>
  ELSE <<Element(quantifer.str, predicate)>>

\* an _add_node that appends before it validates a str quantifier or the predicate
AddNode_AppendsBeforeChecking(pattern, quantifer, predicate) ==
  IF quantifer.type \notin {"int", "str"} THEN [err |-> "AssertionError", query_pattern |-> pattern]
  ELSE IF predicate = NotCallable
    THEN [err |-> "AssertionError",
          query_pattern |-> pattern \o AddNodeExpansion(quantifer, predicate)]
  ELSE IF quantifer.type = "str" /\ quantifer.str \notin {"+", ".", "*"}
    THEN [err |-> "AssertionError",
          query_pattern |-> pattern \o AddNodeExpansion(quantifer, predicate)]
  ELSE [err |-> "none", query_pattern |-> pattern \o AddNodeExpansion(quantifer, predicate)]

\* Query._add_node: [err, query_pattern]
AddNode(pattern, quantifer, predicate) ==
  IF quantifer.type \notin {"int", "str"} THEN [err |-> "AssertionError", query_pattern |-> pattern]
  ELSE IF predicate = NotCallable THEN [err |-> "AssertionError", query_pattern |-> pattern]
  ELSE IF quantifer.type = "str" /\ quantifer.str \notin {"+", ".", "*"}
    THEN [err |-> "AssertionError", query_pattern |-> pattern]
  ELSE [err |-> "none", query_pattern |-> pattern \o AddNodeExpansion(quantifer, predicate)]

\* a match that keeps the elements already in the pattern
QueryMatch_NoReset(pattern, quantifier, predicate) == AddNode(pattern, quantifier, predicate)

\* Query.match: the pattern is emptied before the node is added
QueryMatch(pattern, quantifier, predicate) ==
  AddNode(IF Len(pattern) # 0 THEN <<>> ELSE pattern, quantifier, predicate)

\* Query.rel
QueryRel(pattern, quantifier, predicate) ==
  IF Len(pattern) = 0 THEN [err |-> "InvalidQueryPath", query_pattern |-> pattern]
  ELSE AddNode(pattern, quantifier, predicate)

\* Query.relation: an alias of rel
QueryRelation(pattern, quantifer, predicate) == QueryRel(pattern, quantifer, predicate)

\* --- ObjectQuery.__init__ (v2/object_dialect.py)
\* A path element: a dict (an attribute filter, the sequence of its items), a
\* bare quantifier, a (quantifier, dict) tuple, a tuple whose second item is
\* not a dict, or a value of another type (a list).
NameIs(t) == <<Item("name", RegexStr(t))>>

DictArgs == {<<>>, NameIs("a")}

DictNode(d) == [kind |-> "dict", quant |-> OtherQ, dict |-> d]
QuantNode(q) == [kind |-> "quant", quant |-> q, dict |-> <<>>]
TupleNode(q, d) == [kind |-> "tuple", quant |-> q, dict |-> d]
TupleNodeNotDict(q) == [kind |-> "tuple_notdict", quant |-> q, dict |-> <<>>]
OtherNode == [kind |-> "other", quant |-> OtherQ, dict |-> <<>>]

PathElements ==
  {DictNode(d) : d \in DictArgs}
    \cup {QuantNode(q) : q \in QuantifierArgs \ {OtherQ}}
    \cup {TupleNode(q, d) : q \in QuantifierArgs, d \in DictArgs}
    \cup {TupleNodeNotDict(q) : q \in QuantifierArgs}
    \cup {OtherNode}

\* _process_predicate: the closure apply_predicate over attr_filter, or
\* lambda row: True for {}
ProcessPredicate(attr_filter) ==
  IF attr_filter = <<>> THEN [p |-> "any"]
  ELSE [p |-> "apply_predicate", attr_filter |-> attr_filter]

\* Query._add_node with a closure as its predicate: the elements appended hold
\* the closure
AddNodeClosure(pattern, quantifer, closure) ==
  LET r == AddNode(pattern, quantifer, closure.p)
  IN IF r.err # "none" THEN r
     ELSE [err |-> "none",
           query_pattern |->
             [j \in 1..Len(r.query_pattern) |->
                IF j <= Len(pattern) THEN r.query_pattern[j]
                ELSE r.query_pattern[j] @@ closure]]

\* one iteration of the loop of ObjectQuery.__init__ (lines 163-186)
ObjectQueryNode(pattern, qnode) ==
  IF qnode.kind = "dict"
    THEN IF Len(qnode.dict) > 0
           THEN AddNodeClosure(pattern, StrQ("."), ProcessPredicate(qnode.dict))
         ELSE AddNode(pattern, StrQ("."), "any")
  ELSE IF qnode.kind = "quant" THEN AddNode(pattern, qnode.quant, "any")
  ELSE IF qnode.kind = "tuple_notdict" THEN [err |-> "AssertionError", query_pattern |-> pattern]
  ELSE IF qnode.kind = "tuple"
    THEN IF qnode.quant.type \in {"int", "str"}
           THEN IF Len(qnode.dict) > 0
                  THEN AddNodeClosure(pattern, qnode.quant, ProcessPredicate(qnode.dict))
                ELSE AddNode(pattern, qnode.quant, "any")
         ELSE [err |-> "InvalidQueryPath", query_pattern |-> pattern]
  ELSE [err |-> "InvalidQueryPath", query_pattern |-> pattern]

\* ObjectQuery.__init__: the loop over the list, from an empty pattern
RECURSIVE ObjectQueryLoop(_, _)
ObjectQueryLoop(pattern, nodes) ==
  IF nodes = <<>> THEN [err |-> "none", query_pattern |-> pattern]
  ELSE LET r == ObjectQueryNode(pattern, Head(nodes))
       IN IF r.err # "none" THEN r ELSE ObjectQueryLoop(r.query_pattern, Tail(nodes))

ObjectQueryInit(nodes) == ObjectQueryLoop(<<>>, nodes)

\* --- StringQuery.__init__ (v2/string_dialect.py)
\* The parsed query (the textX model): match_expr is a sequence of NodeExpr,
\* where_expr a sequence of CompoundPred.
NoQuant == [type |-> "None", int |-> 0, str |-> ""]
NoName == "None"

NodeExpr(quant, name) == [quant |-> quant, name |-> name]

\* a SinglePred by its grammar rule
StringEq(name, metric, t) ==
  [cls |-> "StringEq", name |-> name, metric |-> metric, op |-> "", num |-> 0, str |-> t]
NumPred(name, metric, op, k) ==
  [cls |-> "NumPred", name |-> name, metric |-> metric, op |-> op, num |-> k, str |-> ""]
LeafPred(name) ==
  [cls |-> "LeafPred", name |-> name, metric |-> "", op |-> "", num |-> 0, str |-> ""]
NotLeafPred(name) ==
  [cls |-> "NotLeafPred", name |-> name, metric |-> "", op |-> "", num |-> 0, str |-> ""]

\* a CompoundPred: a SinglePred, under NOT or not, written alone (UnaryPred)
\* or after AND or OR (AndPred, OrPred)
CompoundPred(rule, isnot, single) == [rule |-> rule, isnot |-> isnot, single |-> single]

\* the 3-tuple that the parsing functions return
Parsed(name, checks, pred) == [name |-> name, checks |-> checks, pred |-> pred]

\* StringQuery._parse_single_pred
ParseSinglePred(obj) ==
  IF obj.cls = "StringEq"
    THEN Parsed(obj.name, <<TypeCheck(obj.metric, "is_string_dtype")>>,
                <<StringEqCode(obj.metric, obj.str)>>)
  ELSE IF obj.cls = "NumPred"
    THEN Parsed(obj.name, <<TypeCheck(obj.metric, "is_numeric_dtype")>>,
                <<NumIneqCode(obj.metric, obj.op, obj.num)>>)
  ELSE IF obj.cls = "LeafPred" THEN Parsed(obj.name, <<>>, <<LeafCode>>)
  ELSE Parsed(obj.name, <<>>, <<Tok("~"), LeafCode>>)

\* StringQuery._parse_unary_pred / _parse_not_pred
ParseUnaryPred(obj) ==
  LET parsed_subpred == ParseSinglePred(obj.single)
  IN IF obj.isnot THEN [parsed_subpred EXCEPT !.pred = <<Tok("~")>> \o @]
     ELSE parsed_subpred

\* StringQuery._parse_binary_pred
ParseBinaryPred(obj) ==
  LET parsed_subpred == ParseUnaryPred(obj)
  IN [parsed_subpred EXCEPT !.pred = <<Tok(IF obj.rule = "AndPred" THEN "&" ELSE "|")>> \o @]

\* lines 191-201: the checks of a parsed predicate are merged into the
\* metric_checks of its name
RECURSIVE MergeChecks(_, _)
MergeChecks(metric_checks, checks) ==
  IF checks = <<>> THEN [err |-> "none", metric_checks |-> metric_checks]
  ELSE LET same == {j \in 1..Len(metric_checks) : metric_checks[j].metric = Head(checks).metric}
       IN IF same # {}
            THEN IF \E j \in same : metric_checks[j].check # Head(checks).check
                   THEN [err |-> "InvalidQueryFilter", metric_checks |-> metric_checks]
                 ELSE MergeChecks(metric_checks, Tail(checks))
          ELSE MergeChecks(Append(metric_checks, Head(checks)), Tail(checks))

\* StringQuery._parse_where: [err, predicates], predicates a dict from a name
\* to its metric_checks and pred
RECURSIVE ParseWhere(_, _)
ParseWhere(where_expr, predicates) ==
  IF where_expr = <<>> THEN [err |-> "none", predicates |-> predicates]
  ELSE LET pred == Head(where_expr)
           parsed_pred == IF pred.rule = "UnaryPred" THEN ParseUnaryPred(pred)
                          ELSE ParseBinaryPred(pred)
           known == IF parsed_pred.name \in DOMAIN predicates THEN predicates
                    ELSE (parsed_pred.name :> [metric_checks |-> <<>>, pred |-> <<>>])
                           @@ predicates
           merged == MergeChecks(known[parsed_pred.name].metric_checks, parsed_pred.checks)
       IN IF merged.err # "none" THEN [err |-> merged.err, predicates |-> known]
          ELSE ParseWhere(Tail(where_expr),
                 [known EXCEPT ![parsed_pred.name] =
                    [metric_checks |-> merged.metric_checks,
                     pred |-> @.pred \o parsed_pred.pred]])

\* StringQuery._parse_match: the (quantifier, name) of each node
ParseMatch(match_expr) ==
  [j \in 1..Len(match_expr) |->
     [quant |-> IF match_expr[j].quant.type = "None"
                   \/ (match_expr[j].quant.type = "str" /\ match_expr[j].quant.str = "")
                   \/ (match_expr[j].quant.type = "int" /\ match_expr[j].quant.int = 0)
                 THEN StrQ(".") ELSE match_expr[j].quant,
      name |-> match_expr[j].name]]

\* StringQuery._build_query: self.predicates[id] of a name that no condition
\* mentions raises KeyError
RECURSIVE BuildQuery(_, _, _)
BuildQuery(quantifiers, predicates, pattern) ==
  IF quantifiers = <<>> THEN [err |-> "none", query_pattern |-> pattern]
  ELSE LET quantifier == Head(quantifiers).quant
           id == Head(quantifiers).name
           r == IF id = NoName
                  THEN AddNodeClosure(pattern, quantifier,
                         [p |-> "_predicate", type_checks |-> <<>>,
                          pred_expr |-> <<TrueSeriesCode>>])
                ELSE IF id \notin DOMAIN predicates
                  THEN [err |-> "KeyError", query_pattern |-> pattern]
                ELSE AddNodeClosure(pattern, quantifier,
                       [p |-> "_predicate", type_checks |-> predicates[id].metric_checks,
                        pred_expr |-> predicates[id].pred])
       IN IF r.err # "none" THEN r
          ELSE BuildQuery(Tail(quantifiers), predicates, r.query_pattern)

\* StringQuery.__init__ on a parsed query: [err, query_pattern]
StringQueryInit(match_expr, where_expr) ==
  LET w == ParseWhere(where_expr, <<>>)
  IN IF w.err # "none" THEN [err |-> w.err, query_pattern |-> <<>>]
     ELSE BuildQuery(ParseMatch(match_expr), w.predicates, <<>>)

\* ---------------------------------------------------------- SpecBuilder
\* a Query object under construction; hist is the pattern the calls made since
\* the most recent successful match expand to, and whether the object was
\* started by match
NoHistory == [fromMatch |-> FALSE, expected |-> <<>>]

InitBuilder ==
  /\ parent = <<0>>
  /\ dframe = <<"a">>
  /\ query = QueryOf(<<>>)
  /\ mode = "off"
  /\ candidates = <<>>
  /\ path_cache = EmptyCache
  /\ result = Returned(<<>>)
  /\ pc = "Query"
  /\ hist = NoHistory

\* the expansion of one call as the specification states it
Expansion(q, p) ==
  IF q.type = "int" THEN [j \in 1..q.int |-> Element(".", p)]
  ELSE IF q.str = "+" THEN <<Element(".", p), Element("*", p)>>
  ELSE <<Element(q.str, p)>>

Outcome(r) == IF r.err = "none" THEN Returned(<<>>) ELSE Raised(r.err)

Match ==
  \E q \in QuantifierArgs, p \in PredicateArgs :
    LET r == QueryMatch(query.query_pattern, q, p)
    IN /\ query' = QueryOf(r.query_pattern)
       /\ result' = Outcome(r)
       /\ pc' = "match"
       /\ hist' = IF r.err = "none" THEN [fromMatch |-> TRUE, expected |-> Expansion(q, p)]
                  ELSE hist
       /\ UNCHANGED <<parent, dframe, mode, candidates, path_cache>>

Rel ==
  /\ Len(query.query_pattern) < MaxPatLen
  /\ \E q \in QuantifierArgs, p \in PredicateArgs :
       LET r == QueryRel(query.query_pattern, q, p)
       IN /\ query' = QueryOf(r.query_pattern)
          /\ result' = Outcome(r)
          /\ pc' = "rel"
          /\ hist' = IF r.err = "none" THEN [hist EXCEPT !.expected = @ \o Expansion(q, p)]
                     ELSE hist
          /\ UNCHANGED <<parent, dframe, mode, candidates, path_cache>>

Relation ==
  /\ Len(query.query_pattern) < MaxPatLen
  /\ \E q \in QuantifierArgs, p \in PredicateArgs :
       LET r == QueryRelation(query.query_pattern, q, p)
       IN /\ query' = QueryOf(r.query_pattern)
          /\ result' = Outcome(r)
          /\ pc' = "relation"
          /\ hist' = IF r.err = "none" THEN [hist EXCEPT !.expected = @ \o Expansion(q, p)]
                     ELSE hist
          /\ UNCHANGED <<parent, dframe, mode, candidates, path_cache>>

\* ObjectQuery(list) for a non-empty list: a new object replaces the one held
\* when the construction succeeds
NewObjectQuery ==
  /\ pc = "Query"
  /\ \E nodes \in SeqsUpTo(PathElements, MaxPathLen) \ {<<>>} :
    LET r == ObjectQueryInit(nodes)
    IN /\ query' = IF r.err = "none" THEN QueryOf(r.query_pattern) ELSE query
       /\ result' = Outcome(r)
       /\ pc' = "ObjectQuery"
       /\ hist' = IF r.err = "none" THEN NoHistory ELSE hist
       /\ UNCHANGED <<parent, dframe, mode, candidates, path_cache>>

NextBuilder == Match \/ Rel \/ Relation \/ NewObjectQuery

SpecBuilder == InitBuilder /\ [][NextBuilder]_vars

\* C8: after a successful match/rel/relation on an object started by match,
\* every element has quantifier "." or "*" and query_pattern is the
\* concatenation of the expansions of the calls since the most recent match
C8_PatternIsConcatenationOfExpansions ==
  (pc \in {"match", "rel", "relation"} /\ result.err = "none" /\ hist.fromMatch) =>
    /\ \A j \in 1..Len(query.query_pattern) : query.query_pattern[j].q \in {".", "*"}
    /\ query.query_pattern = hist.expected

C8_Witness ==
  /\ pc = "rel" /\ result.err = "none" /\ hist.fromMatch
  /\ \E j \in 1..Len(query.query_pattern) : query.query_pattern[j].q = "*"
  /\ Len(query.query_pattern) >= 4

\* C9: after a successful match or ObjectQuery construction the pattern holds
\* at least one element
C9_PatternNeverEmpty ==
  (pc \in {"match", "ObjectQuery"} /\ result.err = "none") => Len(query.query_pattern) >= 1

\* C10: rel/relation on an empty pattern fails with InvalidQueryPath, and every
\* rejected builder call leaves query_pattern as it was
C10_RejectedCallLeavesPattern ==
  [][/\ (pc' \in {"rel", "relation"} /\ Len(query.query_pattern) = 0)
          => result'.err = "InvalidQueryPath"
     /\ (pc' \in {"match", "rel", "relation"} /\ result'.err # "none")
          => query'.query_pattern = query.query_pattern]_vars

\* C10 amended: a rejected rel/relation leaves query_pattern as it was; a
\* rejected match leaves it empty
C10_RejectedRelLeavesPatternMatchEmptiesIt ==
  [][/\ (pc' \in {"rel", "relation"} /\ Len(query.query_pattern) = 0)
          => result'.err = "InvalidQueryPath"
     /\ (pc' \in {"rel", "relation"} /\ result'.err # "none")
          => query'.query_pattern = query.query_pattern
     /\ (pc' = "match" /\ result'.err # "none") => query'.query_pattern = <<>>]_vars

C10_Witness ==
  pc = "match" /\ result.err = "AssertionError" /\ hist.fromMatch /\ Len(hist.expected) >= 1


\* --------------------------------------------------------- SpecCompound
\* one evaluation of a compound query: the subqueries are drawn from a pool of
\* patterns, compound queries nest one level
SubqueryPool ==
  {QueryOf(pat) : pat \in {
     <<Element(".", "any")>>,
     <<Element(".", "b")>>,
     <<Element("*", "a")>>,
     <<Element("*", "any"), Element(".", "b")>>,
     <<Element(".", "a"), Element("*", "b")>>,
     <<Element(".", "a"), Element(".", "b")>>}}

SubqueryLists == {s \in SeqsUpTo(SubqueryPool, MaxSubs) : Len(s) >= 2}

NaryQueries == {CompoundOf(cls, subs) : cls \in NaryClasses, subs \in SubqueryLists}

Negations(qs) == {CompoundOf("NegationQuery", <<q>>) : q \in qs}

BinaryQueries == {q \in NaryQueries : Len(q.subqueries) = 2}

CompoundQueries ==
  NaryQueries
    \cup Negations(SubqueryPool)
    \cup Negations(BinaryQueries)
    \cup {CompoundOf(cls, <<n, q>>) :
            cls \in NaryClasses, n \in Negations(SubqueryPool), q \in SubqueryPool}

InitCompound ==
  /\ GraphAndTable(SmallNodes)
  /\ query \in CompoundQueries
  /\ mode = "off"
  /\ candidates = <<>>
  /\ path_cache = EmptyCache
  /\ result = Returned(<<>>)
  /\ pc = "ready"
  /\ hist = <<>>

NextCompound == Apply

SpecCompound == InitCompound /\ [][NextCompound]_vars

\* what applying subquery k of the query on its own, on a new engine, gives
Alone(k) == EngineApply(FreshEngine, parent, dframe, query.subqueries[k], "off").res

AllAloneReturn == \A k \in 1..Len(query.subqueries) : Alone(k).err = "none"

InOddNumber(n) ==
  Cardinality({k \in 1..Len(query.subqueries) : n \in SeqSet(Alone(k).nodes)}) % 2 = 1

\* C2: apply returns for a ConjunctionQuery the intersection, for a
\* DisjunctionQuery the union and for an ExclusiveDisjunctionQuery the nodes in
\* an odd number of the node sets that the subqueries return on their own (and
\* raises when a subquery raises)
C2_CompoundIsSetOperationOfSubqueryResults ==
  (pc = "done" /\ query.cls \in NaryClasses) =>
    IF AllAloneReturn
      THEN /\ result.err = "none"
           /\ SeqSet(result.nodes) =
                {n \in GraphNodes(parent) :
                   CASE query.cls = "ConjunctionQuery" ->
                          \A k \in 1..Len(query.subqueries) : n \in SeqSet(Alone(k).nodes)
                     [] query.cls = "DisjunctionQuery" ->
                          \E k \in 1..Len(query.subqueries) : n \in SeqSet(Alone(k).nodes)
                     [] query.cls = "ExclusiveDisjunctionQuery" -> InOddNumber(n)}
      ELSE result.err # "none"

C2_Witness ==
  /\ pc = "done" /\ query.cls = "ExclusiveDisjunctionQuery" /\ Len(query.subqueries) = 3
  /\ result.err = "none" /\ result.nodes # <<>>
  /\ \E n \in GraphNodes(parent) : \A k \in 1..3 : n \in SeqSet(Alone(k).nodes)
  /\ \E n \in GraphNodes(parent) :
       Cardinality({k \in 1..3 : n \in SeqSet(Alone(k).nodes)}) = 2

\* C3: apply(NegationQuery(q)) and apply(q) are disjoint and together hold
\* every node of the graph, each exactly once
C3_NegationIsComplement ==
  (pc = "done" /\ query.cls = "NegationQuery" /\ Alone(1).err = "none") =>
    /\ result.err = "none"
    /\ SeqSet(result.nodes) \cap SeqSet(Alone(1).nodes) = {}
    /\ SeqSet(result.nodes) \cup SeqSet(Alone(1).nodes) = GraphNodes(parent)
    /\ Len(result.nodes) + Len(Alone(1).nodes) = Cardinality(GraphNodes(parent))

C3_Witness ==
  /\ pc = "done" /\ query.cls = "NegationQuery" /\ result.err = "none"
  /\ result.nodes # <<>> /\ Alone(1).err = "none" /\ Alone(1).nodes # <<>>

\* ------------------------------------------------------------ SpecReuse
\* one engine instance applied to a sequence of queries; hist counts the calls
\* and keeps the outcome of the call before the last
ReusePool ==
  SubqueryPool
    \cup {QueryOf(<<Element(".", IllPred)>>),
          QueryOf(<<Element("*", "any"), Element(".", IllPred)>>)}
    \cup {CompoundOf("ConjunctionQuery",
                     <<QueryOf(<<Element(".", "any")>>), QueryOf(<<Element(".", "b")>>)>>),
          CompoundOf("NegationQuery", <<QueryOf(<<Element("*", "any"), Element(".", "b")>>)>>)}

ModeArgs == AvailableModes \cup {"bogus"}

InitReuse ==
  /\ GraphAndTable(SmallNodes)
  /\ query = QueryOf(<<>>)
  /\ mode = "off"
  /\ candidates = <<>>
  /\ path_cache = EmptyCache
  /\ result = Returned(<<>>)
  /\ pc = "new"
  /\ hist = [calls |-> 0, before |-> "none"]

\* engine.apply(q, graph, dframe, m) on the engine as the earlier calls left it
ApplyNext ==
  /\ hist.calls < MaxCalls
  /\ \E q \in ReusePool, m \in ModeArgs :
       LET out == EngineApply(Engine, parent, dframe, q, m)
       IN /\ query' = q
          /\ mode' = m
          /\ candidates' = out.candidates
          /\ path_cache' = out.path_cache
          /\ result' = out.res
          /\ pc' = "done"
          /\ hist' = [calls |-> hist.calls + 1, before |-> result.err]
  /\ UNCHANGED <<parent, dframe>>

NextReuse == ApplyNext

SpecReuse == InitReuse /\ [][NextReuse]_vars

\* C5: whatever calls came before on the same engine (also calls that raised),
\* apply returns what the same call returns on a new engine, and leaves the
\* candidates and the path cache that the call leaves on a new engine
C5_SameAsOnNewEngine ==
  pc = "done" =>
    LET new == EngineApply(FreshEngine, parent, dframe, query, mode)
    IN /\ result = new.res
       /\ candidates = new.candidates
       /\ path_cache = new.path_cache

C5_Witness ==
  /\ pc = "done" /\ hist.calls >= 2 /\ hist.before \in {"TypeError", "InvalidQueryFilter"}
  /\ result.err = "none" /\ result.nodes # <<>>
  /\ path_cache # EmptyCache

\* ------------------------------------------------------- SpecConcurrent
\* two threads call apply on one shared engine (deprecated_engine_singleton):
\* pc, query and result are per thread; a thread runs the statements of
\* QueryEngine.apply's Query branch one after the other and the threads
\* interleave between statements
Threads == {1, 2}

UnitQueries == {QueryOf(<<e>>) : e \in Elements(GoodPreds)}

InitConcurrent ==
  /\ GraphAndTable(SmallNodes)
  /\ query \in [Threads -> UnitQueries]
  /\ mode = "off"
  /\ candidates = <<>>
  /\ path_cache = EmptyCache
  /\ result = [t \in Threads |-> Returned(<<>>)]
  /\ pc = [t \in Threads |-> "apply"]
  /\ hist = <<>>

\* line 43: self._reset()
ThreadReset(t) ==
  /\ pc[t] = "apply"
  /\ candidates' = EngineReset(Engine).candidates
  /\ path_cache' = EngineReset(Engine).path_cache
  /\ pc' = [pc EXCEPT ![t] = "reset"]
  /\ UNCHANGED <<parent, dframe, query, mode, result, hist>>

\* line 44: self._init(query, dframe, multi_index_mode)
ThreadInit(t) ==
  /\ pc[t] = "reset"
  /\ LET ini == EngineInit(candidates, dframe, query[t].query_pattern, mode)
     IN /\ candidates' = ini.candidates
        /\ pc' = [pc EXCEPT ![t] = IF ini.err = "none" THEN "init" ELSE "done"]
        /\ result' = IF ini.err = "none" THEN result
                     ELSE [result EXCEPT ![t] = Raised(ini.err)]
  /\ UNCHANGED <<parent, dframe, query, mode, path_cache, hist>>

\* line 45: return self._apply_impl(graph, query)
ThreadSearch(t) ==
  /\ pc[t] = "init"
  /\ LET out == ApplyImpl(parent, query[t].query_pattern, candidates, path_cache)
     IN /\ path_cache' = out.cache
        /\ result' = [result EXCEPT ![t] = out.res]
  /\ pc' = [pc EXCEPT ![t] = "done"]
  /\ UNCHANGED <<parent, dframe, query, mode, candidates, hist>>

NextConcurrent == \E t \in Threads : ThreadReset(t) \/ ThreadInit(t) \/ ThreadSearch(t)

SpecConcurrent == InitConcurrent /\ [][NextConcurrent]_vars

\* C7: overlapping apply invocations on one engine do not interfere: each
\* returns what it returns when it runs alone
C7_OverlappingAppliesDoNotInterfere ==
  \A t \in Threads :
    pc[t] = "done" => result[t] = EngineApply(FreshEngine, parent, dframe, query[t], mode).res


\* ------------------------------------- constructing compound queries
\* An argument of a compound query's constructor: a Query or CompoundQuery
\* object, a list (an object-dialect query), a tuple of arguments, or a value
\* of another type.
ArgQuery(q) == [kind |-> "query", query |-> q, list |-> <<>>, items |-> <<>>]
ArgList(nodes) == [kind |-> "list", query |-> QueryOf(<<>>), list |-> nodes, items |-> <<>>]
ArgTuple(items) == [kind |-> "tuple", query |-> QueryOf(<<>>), list |-> <<>>, items |-> items]
ArgOther == [kind |-> "other", query |-> QueryOf(<<>>), list |-> <<>>, items |-> <<>>]

\* the loop of CompoundQuery.__init__ (lines 32-43): [err, subqueries]
RECURSIVE CompoundQueryLoop(_, _)
CompoundQueryLoop(subqueries, queries) ==
  IF queries = <<>> THEN [err |-> "none", subqueries |-> subqueries]
  ELSE LET arg == Head(queries)
       IN IF arg.kind = "query"
            THEN CompoundQueryLoop(Append(subqueries, arg.query), Tail(queries))
          ELSE IF arg.kind = "list"
            THEN LET oq == ObjectQueryInit(arg.list)
                 IN IF oq.err # "none" THEN [err |-> oq.err, subqueries |-> subqueries]
                    ELSE CompoundQueryLoop(Append(subqueries, QueryOf(oq.query_pattern)),
                                           Tail(queries))
          ELSE [err |-> "TypeError", subqueries |-> subqueries]

\* CompoundQuery.__init__(*queries): queries[0] is read before anything else
CompoundQueryInit(queries) ==
  IF Len(queries) = 0 THEN [err |-> "IndexError", subqueries |-> <<>>]
  ELSE IF queries[1].kind = "tuple" /\ Len(queries) = 1
    THEN CompoundQueryLoop(<<>>, queries[1].items)
  ELSE CompoundQueryLoop(<<>>, queries)

\* the check of len(self.subqueries) that follows the base constructor in the
\* __init__ of the four subclasses; base is what the base constructor gave
CheckedSubqueries(cls, base) ==
  IF base.err # "none" THEN [err |-> base.err, query |-> CompoundOf(cls, base.subqueries)]
  ELSE IF cls \in NaryClasses /\ Len(base.subqueries) < 2
    THEN [err |-> "BadNumberNaryQueryArgs", query |-> CompoundOf(cls, base.subqueries)]
  ELSE IF cls = "NegationQuery" /\ Len(base.subqueries) # 1
    THEN [err |-> "BadNumberNaryQueryArgs", query |-> CompoundOf(cls, base.subqueries)]
  ELSE [err |-> "none", query |-> CompoundOf(cls, base.subqueries)]

\* the __init__ of the four subclasses: the base constructor, then the check
\* of len(self.subqueries)
CompoundSubclassInit(cls, queries) == CheckedSubqueries(cls, CompoundQueryInit(queries))

\* -------------------------------------------------------- SpecConstruct
\* one constructor call; hist keeps the arguments it was given
UnitQuery == QueryOf(<<Element(".", "any")>>)

ConstructorArgs ==
  {ArgQuery(UnitQuery),
   ArgQuery(CompoundOf("NegationQuery", <<UnitQuery>>)),
   ArgList(<<DictNode(NameIs("a"))>>),
   ArgList(<<OtherNode>>),
   ArgOther,
   ArgTuple(<<>>),
   ArgTuple(<<ArgQuery(UnitQuery)>>),
   ArgTuple(<<ArgQuery(UnitQuery), ArgList(<<DictNode(NameIs("a"))>>)>>)}

ArgumentLists == SeqsUpTo(ConstructorArgs, MaxSubs)

InitConstruct ==
  /\ parent = <<0>>
  /\ dframe = <<"a">>
  /\ query = QueryOf(<<>>)
  /\ mode = "off"
  /\ candidates = <<>>
  /\ path_cache = EmptyCache
  /\ result = Returned(<<>>)
  /\ pc = "new"
  /\ hist = <<>>

Construct(cls) ==
  /\ pc = "new"
  /\ \E queries \in ArgumentLists :
       LET r == CompoundSubclassInit(cls, queries)
       IN /\ query' = IF r.err = "none" THEN r.query ELSE query
          /\ result' = Outcome(r)
          /\ hist' = queries
  /\ pc' = cls
  /\ UNCHANGED <<parent, dframe, mode, candidates, path_cache>>

NewConjunctionQuery == Construct("ConjunctionQuery")
NewDisjunctionQuery == Construct("DisjunctionQuery")
NewExclusiveDisjunctionQuery == Construct("ExclusiveDisjunctionQuery")
NewNegationQuery == Construct("NegationQuery")

NextConstruct ==
  \/ NewConjunctionQuery
  \/ NewDisjunctionQuery
  \/ NewExclusiveDisjunctionQuery
  \/ NewNegationQuery

SpecConstruct == InitConstruct /\ [][NextConstruct]_vars

\* the subqueries a constructor call was given: its arguments, or the items of
\* its only argument when that is a tuple
GivenSubqueries == IF Len(hist) = 1 /\ hist[1].kind = "tuple" THEN hist[1].items ELSE hist

IsSubquery(arg) ==
  \/ arg.kind = "query"
  \/ arg.kind = "list" /\ ObjectQueryInit(arg.list).err = "none"

\* C11: a ConjunctionQuery, DisjunctionQuery or ExclusiveDisjunctionQuery given
\* fewer than two subqueries, and a NegationQuery given a number of subqueries
\* other than one, fails with BadNumberNaryQueryArgs at construction, and the
\* engine is not touched
C11_WrongArityIsBadNumberNaryQueryArgs ==
  (/\ pc \in CompoundClasses
   /\ \A j \in 1..Len(GivenSubqueries) : IsSubquery(GivenSubqueries[j])
   /\ IF pc = "NegationQuery" THEN Len(GivenSubqueries) # 1 ELSE Len(GivenSubqueries) < 2)
    => /\ result.err = "BadNumberNaryQueryArgs"
       /\ candidates = <<>> /\ path_cache = EmptyCache

\* ----------------------------------------------------------- SpecFilter
\* A one-element query is built from an attribute filter (object dialect) or
\* from one condition (string dialect), then applied to a graph and its table.
TableRows == {Row("a", 0), Row("a", 1), Row("b", 1)}

GraphAndRows(maxNodes) ==
  \E k \in 1..maxNodes :
    /\ parent \in Forests(k)
    /\ dframe \in {Table(parent, FALSE, [n \in 1..k |-> <<rows[n]>>]) : rows \in [1..k -> TableRows]}

\* the conditions of an attribute filter
ListItems == {RealCond(-1), RealCond(0), RealCond(1), CompStr(">=", 1), CompStr("<", 1)}
SingleConds == ListItems \cup {RegexStr("a"), OtherCond}
Conds == SingleConds \cup {ListCond(l) : l \in SeqsUpTo(ListItems, MaxConds)}
Attributes == {"name", "time", "depth", "node_id"}
AttrFilters == {<<Item(metric, cond)>> : metric \in Attributes, cond \in Conds}

\* the conditions of a WHERE clause on the name p
SinglePreds ==
  {StringEq("p", metric, "a") : metric \in {"name", "time"}}
    \cup {NumPred("p", metric, "==", k) : metric \in {"name", "time", "depth"}, k \in {-1, 0, 1}}
    \cup {LeafPred("p"), NotLeafPred("p")}

FromFilter(attr_filter) ==
  [dialect |-> "object", attr_filter |-> attr_filter, where_expr |-> <<>>]
FromWhere(where_expr) ==
  [dialect |-> "string", attr_filter |-> <<>>, where_expr |-> where_expr]

InitFilter ==
  /\ GraphAndRows(SmallNodes)
  /\ query = QueryOf(<<>>)
  /\ mode = "off"
  /\ candidates = <<>>
  /\ path_cache = EmptyCache
  /\ result = Returned(<<>>)
  /\ pc = "new"
  /\ hist = FromFilter(<<>>)

Constructed(r, source) ==
  /\ query' = QueryOf(r.query_pattern)
  /\ result' = Outcome(r)
  /\ pc' = IF r.err = "none" THEN "ready" ELSE "failed"
  /\ hist' = source
  /\ UNCHANGED <<parent, dframe, mode, candidates, path_cache>>

\* ObjectQuery([attr_filter])
NewFilterQuery ==
  /\ pc = "new"
  /\ \E attr_filter \in AttrFilters :
       Constructed(ObjectQueryInit(<<DictNode(attr_filter)>>), FromFilter(attr_filter))

\* StringQuery("MATCH (p) WHERE <condition>")
NewConditionQuery ==
  /\ pc = "new"
  /\ \E single \in SinglePreds :
       LET where_expr == <<CompoundPred("UnaryPred", FALSE, single)>>
       IN Constructed(StringQueryInit(<<NodeExpr(NoQuant, "p")>>, where_expr),
                      FromWhere(where_expr))

NextFilter == NewFilterQuery \/ NewConditionQuery \/ Apply

SpecFilter == InitFilter /\ [][NextFilter]_vars

\* the one condition of the query that was applied
TheItem == hist.attr_filter[1]
TheSingle == hist.where_expr[1].single

\* a string-typed column against a numeric literal, or a numeric column
\* against a string that is not a comparison
TypeMismatch ==
  IF hist.dialect = "object"
    THEN \/ TheItem.metric = "name" /\ TheItem.cond.type = "Real"
         \/ TheItem.metric = "time" /\ TheItem.cond.type = "str" /\ TheItem.cond.op = ""
  ELSE \/ TheSingle.metric = "name" /\ TheSingle.cls = "NumPred"
       \/ TheSingle.metric = "time" /\ TheSingle.cls = "StringEq"

\* C12: applying a query whose predicate compares a string-typed column with
\* a numeric literal, or a numeric column with a string that is not a
\* comparison, raises InvalidQueryFilter in either dialect, and never gives a
\* list of nodes
C12_TypeMismatchRaisesInvalidQueryFilter ==
  (pc = "done" /\ TypeMismatch) => result.err = "InvalidQueryFilter"

\* the object dialect alone raises InvalidQueryFilter for such a predicate
C12_ObjectDialectRaisesInvalidQueryFilter ==
  (pc = "done" /\ TypeMismatch /\ hist.dialect = "object") => result.err = "InvalidQueryFilter"

\* ------------------------------------------------------------ SpecMulti
\* One apply, in each multi_index_mode, to a table that has one row per node
\* or one row per node and rank.
Ranks == {1, 2}

MultiIndexed(par, names) ==
  Table(par, TRUE, [n \in DOMAIN par |-> [r \in Ranks |-> Row(names[n][r], 0)]])

GraphAndRanks(maxNodes) ==
  \E k \in 1..maxNodes :
    /\ parent \in Forests(k)
    /\ dframe \in {SingleIndexed(parent, names) : names \in [1..k -> Names]}
                    \cup {MultiIndexed(parent, names) : names \in [1..k -> [Ranks -> Names]]}

\* the patterns: the empty one, those of predicates that evaluate, and some
\* with a predicate that raises
MultiPatterns ==
  SeqsUpTo(Elements({"any", "a"}), MaxElems)
    \cup {<<Element(".", IllPred)>>, <<Element(".", "a"), Element("*", IllPred)>>}

InitMulti ==
  /\ GraphAndRanks(SmallNodes)
  /\ query \in {QueryOf(p) : p \in MultiPatterns}
  /\ mode = "off"
  /\ candidates = <<>>
  /\ path_cache = EmptyCache
  /\ result = Returned(<<>>)
  /\ pc = "ready"
  /\ hist = <<>>

\* engine.apply(query, graph, dframe, multi_index_mode=m)
ApplyInMode ==
  /\ pc = "ready"
  /\ \E m \in ModeArgs :
       LET out == EngineApply(Engine, parent, dframe, query, m)
       IN /\ mode' = m
          /\ candidates' = out.candidates
          /\ path_cache' = out.path_cache
          /\ result' = out.res
  /\ pc' = "done"
  /\ UNCHANGED <<parent, dframe, query, hist>>

NextMulti == ApplyInMode

SpecMulti == InitMulti /\ [][NextMulti]_vars

\* every predicate of the pattern gives its values on the table
AllPredicatesEvaluate == PredicateOutputs(query.query_pattern, dframe, <<>>).err = "none"

CandidatesGenerated ==
  /\ pc = "done"
  /\ EngineInit(<<>>, dframe, query.query_pattern, mode).err = "none"

\* the rows of node n satisfy the predicate p: its one row; for a table with
\* several rows per node, at least one of them in mode "any" and every one
\* of them in mode "all"
RowsSatisfy(p, n) ==
  IF dframe.multi
    THEN IF mode = "any" THEN \E r \in 1..Len(dframe.rows[n]) : PredHolds(p, dframe.rows[n][r])
         ELSE \A r \in 1..Len(dframe.rows[n]) : PredHolds(p, dframe.rows[n][r])
  ELSE PredHolds(p, dframe.rows[n][1])

\* C24: after candidate generation the engine holds one candidate list per
\* pattern element, and candidates[i] contains a node if and only if its row
\* satisfies element i's predicate; for a table with several rows per node,
\* if and only if at least one row does in mode "any", every row in mode "all"
C24_CandidatesAreTheSatisfyingNodes ==
  CandidatesGenerated =>
    /\ Len(candidates) = Len(query.query_pattern)
    /\ \A i \in 1..Len(candidates) : \A n \in DOMAIN parent :
         n \in candidates[i] <=> RowsSatisfy(query.query_pattern[i].p, n)

\* candidates were generated in mode "all" for a node of which one row only
\* satisfies the predicate of the first element
C24_Witness ==
  /\ CandidatesGenerated
  /\ dframe.multi
  /\ mode = "all"
  /\ \E n \in DOMAIN parent :
       /\ n \notin candidates[1]
       /\ \E r \in 1..Len(dframe.rows[n]) :
            PredHolds(query.query_pattern[1].p, dframe.rows[n][r])

\* ----------------------------------------------------------- SpecAnyAll
\* One apply in mode "any" or "all" to a multi-indexed table. Across its
\* ranks a node has the name "a" in every row, in some rows, or in none.
RankNames == {<<"a", "a">>, <<"a", "b">>, <<"b", "b">>}

GraphAndRankNames(maxNodes) ==
  \E k \in 1..maxNodes :
    /\ parent \in Forests(k)
    /\ dframe \in {MultiIndexed(parent, names) : names \in [1..k -> RankNames]}

InitAnyAll ==
  /\ GraphAndRankNames(MaxNodes)
  /\ query \in {QueryOf(p) : p \in SeqsUpTo(Elements({"any", "a"}), MaxElems) \ {<<>>}}
  /\ mode = "off"
  /\ candidates = <<>>
  /\ path_cache = EmptyCache
  /\ result = Returned(<<>>)
  /\ pc = "ready"
  /\ hist = <<>>

\* engine.apply(query, graph, dframe, multi_index_mode=m), m "any" or "all"
ApplyAnyOrAll ==
  /\ pc = "ready"
  /\ \E m \in {"any", "all"} :
       LET out == EngineApply(Engine, parent, dframe, query, m)
       IN /\ mode' = m
          /\ candidates' = out.candidates
          /\ path_cache' = out.path_cache
          /\ result' = out.res
  /\ pc' = "done"
  /\ UNCHANGED <<parent, dframe, query, hist>>

NextAnyAll == ApplyAnyOrAll

SpecAnyAll == InitAnyAll /\ [][NextAnyAll]_vars

\* what apply returns on a new engine in multi_index_mode m
InMode(m) == EngineApply(FreshEngine, parent, dframe, query, m).res

\* C14: for the same pattern, graph and multi-indexed table, every node that
\* apply returns in mode "all" is also returned by apply in mode "any"
C14_AllResultWithinAnyResult ==
  (pc = "done" /\ mode = "all" /\ result.err = "none") =>
    \A n \in SeqSet(result.nodes) :
      InMode("any").err = "none" /\ n \in SeqSet(InMode("any").nodes)

\* the same, for the cases in which apply in mode "any" returns
C14_AllResultWithinAnyResultWhenAnyReturns ==
  (pc = "done" /\ mode = "all" /\ result.err = "none" /\ InMode("any").err = "none") =>
    SeqSet(result.nodes) \subseteq SeqSet(InMode("any").nodes)

\* ------------------------------------------------------------- SpecPath
\* An object-dialect query whose elements all have quantifier "." is built
\* and applied.
DepthIs(k) == <<Item("depth", RealCond(k))>>
NodeIdIs(k) == <<Item("node_id", RealCond(k))>>

DotFilters == {<<>>, DepthIs(0), NodeIdIs(0), NameIs("a")}

DotElements == {DictNode(d) : d \in DotFilters} \cup {QuantNode(IntQ(2))}

InitPath ==
  /\ GraphAndTable(MaxNodes)
  /\ query = QueryOf(<<>>)
  /\ mode = "off"
  /\ candidates = <<>>
  /\ path_cache = EmptyCache
  /\ result = Returned(<<>>)
  /\ pc = "new"
  /\ hist = <<>>

\* ObjectQuery(nodes)
NewPathQuery ==
  /\ pc = "new"
  /\ \E nodes \in SeqsUpTo(DotElements, MaxPathLen) \ {<<>>} :
       Constructed(ObjectQueryInit(nodes), nodes)

NextPath == NewPathQuery \/ Apply

SpecPath == InitPath /\ [][NextPath]_vars

\* what an element of the pattern asks of a node: nothing (.p = "any"), or a
\* depth, a node number or a name
Asks(e, n) ==
  IF e.p = "any" THEN TRUE
  ELSE \A j \in 1..Len(e.attr_filter) :
         LET it == e.attr_filter[j]
         IN IF it.metric = "depth" THEN Depth(parent, n) = it.cond.num
            ELSE IF it.metric = "node_id" THEN n - 1 = it.cond.num
            ELSE RowOf(dframe, n).name = it.cond.str

\* the downward paths n0 -> ... -> n(k-1) on which each node satisfies the
\* predicate of the element at its position
DotPaths ==
  {p \in DownPaths(parent) :
     /\ Len(p) = Len(query.query_pattern)
     /\ \A j \in 1..Len(p) : Asks(query.query_pattern[j], p[j])}

Roots == {n \in DOMAIN parent : parent[n] = 0}

Leaves == {n \in DOMAIN parent : Children(parent, n) = {}}

AppliedFilter(attr_filter) == pc = "done" /\ hist = FromFilter(attr_filter)
AppliedCondition(single) ==
  pc = "done" /\ hist = FromWhere(<<CompoundPred("UnaryPred", FALSE, single)>>)

Selects(nodes) == result.err = "none" /\ SeqSet(result.nodes) = nodes

\* C16: the filter {"depth": -1}, the condition p."depth" = -1 and the
\* condition p IS LEAF each select exactly the nodes without children, and
\* p IS NOT LEAF selects exactly the other nodes of the graph
C16_LeafConditionsSelectLeaves ==
  /\ AppliedFilter(DepthIs(-1)) => Selects(Leaves)
  /\ AppliedCondition(NumPred("p", "depth", "==", -1)) => Selects(Leaves)
  /\ AppliedCondition(LeafPred("p")) => Selects(Leaves)
  /\ AppliedCondition(NotLeafPred("p")) => Selects(DOMAIN parent \ Leaves)

\* the object-dialect filter {"depth": -1} alone selects the leaves
C16_ObjectDialectDepthMinusOneSelectsLeaves ==
  AppliedFilter(DepthIs(-1)) => Selects(Leaves)

\* --------------------------- claims on SpecFilter: lists of conditions
\* what apply returns, on a new engine, for the filter {metric: cond}
Singly(metric, cond) ==
  EngineApply(FreshEngine, parent, dframe,
              QueryOf(ObjectQueryInit(<<DictNode(<<Item(metric, cond)>>)>>).query_pattern),
              "off").res

AppliedList ==
  /\ pc = "done" /\ hist.dialect = "object"
  /\ TheItem.cond.type = "list" /\ Len(TheItem.cond.items) > 0

EachSinglyReturns ==
  \A j \in 1..Len(TheItem.cond.items) : Singly(TheItem.metric, TheItem.cond.items[j]).err = "none"

SatisfyEachSingly ==
  {n \in DOMAIN parent :
     \A j \in 1..Len(TheItem.cond.items) :
       n \in SeqSet(Singly(TheItem.metric, TheItem.cond.items[j]).nodes)}

\* C17: a list of conditions for one attribute (a metric column, depth or
\* node_id) selects exactly the nodes that satisfy every condition of the
\* list taken singly
C17_ListOfConditionsIsConjunction ==
  (AppliedList /\ EachSinglyReturns) => Selects(SatisfyEachSingly)

\* the same for a numeric column and for node_id only
C17_ListIsConjunctionForTimeAndNodeId ==
  (AppliedList /\ EachSinglyReturns /\ TheItem.metric \in {"time", "node_id"})
    => Selects(SatisfyEachSingly)

\* ------------------------------------------------------- SpecObjectPath
\* ObjectQuery is constructed from a list of path elements of every kind.
InitObjectPath ==
  /\ parent = <<0>>
  /\ dframe = SingleIndexed(parent, <<"a">>)
  /\ query = QueryOf(<<>>)
  /\ mode = "off"
  /\ candidates = <<>>
  /\ path_cache = EmptyCache
  /\ result = Returned(<<>>)
  /\ pc = "new"
  /\ hist = <<>>

\* ObjectQuery(nodes)
NewObjectQueryFrom ==
  /\ pc = "new"
  /\ \E nodes \in SeqsUpTo(PathElements, MaxPathLen) \ {<<>>} :
       Constructed(ObjectQueryInit(nodes), nodes)

NextObjectPath == NewObjectQueryFrom

SpecObjectPath == InitObjectPath /\ [][NextObjectPath]_vars

\* a path element that is not a string or integer quantifier, a dict, or a
\* (string-or-integer quantifier, dict) pair, or whose quantifier string is
\* not ".", "*" or "+"
Malformed(e) ==
  \/ e.kind \in {"tuple_notdict", "other"}
  \/ e.kind = "tuple" /\ e.quant.type = "other"
  \/ e.kind \in {"quant", "tuple"} /\ e.quant.type = "str" /\ e.quant.str \notin {".", "*", "+"}

\* the first element of the list that the constructor does not accept is
\* malformed
FirstRejectedIsMalformed ==
  \E j \in 1..Len(hist) :
    /\ Malformed(hist[j])
    /\ \A k \in 1..(j - 1) : ObjectQueryInit(<<hist[k]>>).err = "none"

\* C18: ObjectQuery construction fails with InvalidQueryPath for a tuple
\* whose first item is not a string or integer, a tuple whose second item is
\* not a dict, a list, and a quantifier string other than ".", "*" and "+"
C18_MalformedElementIsInvalidQueryPath ==
  (pc # "new" /\ FirstRejectedIsMalformed) => result.err = "InvalidQueryPath"

\* the elements that the constructor itself rejects: a tuple (x, dict) whose
\* first item is not a string or integer, and an element of another type
C18_BadFirstItemOrTypeIsInvalidQueryPath ==
  (/\ pc # "new"
   /\ \A k \in 1..(Len(hist) - 1) : ObjectQueryInit(<<hist[k]>>).err = "none"
   /\ \/ hist[Len(hist)].kind = "other"
      \/ hist[Len(hist)].kind = "tuple" /\ hist[Len(hist)].quant.type = "other")
    => result.err = "InvalidQueryPath"

\* ------------------------------------------------------------ SpecWhere
\* A string-dialect query MATCH (..)->(..) WHERE c1 AND/OR c2 ... is built and
\* applied. The conditions compare the column name with "a", under NOT or
\* not, for the names p and q; the nodes of MATCH have the quantifier ".".
BoundNames == {"p", "q"}

WhereConds == {[isnot |-> neg, single |-> StringEq(name, "name", "a")] :
                 neg \in BOOLEAN, name \in BoundNames}

\* c1 [AND|OR c2 [AND|OR c3 ...]]: the first condition is written alone, each
\* later one after AND or OR
RECURSIVE WhereExprs(_)
WhereExprs(n) ==
  IF n = 1 THEN {<<CompoundPred("UnaryPred", c.isnot, c.single)>> : c \in WhereConds}
  ELSE WhereExprs(n - 1)
         \cup {Append(w, CompoundPred(rule, c.isnot, c.single)) :
                 w \in {v \in WhereExprs(n - 1) : Len(v) = n - 1},
                 rule \in {"AndPred", "OrPred"}, c \in WhereConds}

MatchExprs ==
  {<<NodeExpr(NoQuant, "p")>>,
   <<NodeExpr(NoQuant, "p"), NodeExpr(NoQuant, "q")>>,
   <<NodeExpr(NoQuant, "p"), NodeExpr(StrQ("."), NoName)>>}

FromString(match_expr, where_expr) == [match_expr |-> match_expr, where_expr |-> where_expr]

InitWhere ==
  /\ GraphAndTable(SmallNodes)
  /\ query = QueryOf(<<>>)
  /\ mode = "off"
  /\ candidates = <<>>
  /\ path_cache = EmptyCache
  /\ result = Returned(<<>>)
  /\ pc = "new"
  /\ hist = FromString(<<>>, <<>>)

\* StringQuery("MATCH ... WHERE ...")
NewStringQuery ==
  /\ pc = "new"
  /\ \E match_expr \in MatchExprs, where_expr \in WhereExprs(MaxPreds) :
       Constructed(StringQueryInit(match_expr, where_expr), FromString(match_expr, where_expr))

NextWhere == NewStringQuery \/ Apply

SpecWhere == InitWhere /\ [][NextWhere]_vars

\* the conditions of where_expr that are written for a name, in order
RECURSIVE CondsOf(_, _)
CondsOf(name, where_expr) ==
  IF where_expr = <<>> THEN <<>>
  ELSE IF Head(where_expr).single.name = name
    THEN <<Head(where_expr)>> \o CondsOf(name, Tail(where_expr))
  ELSE CondsOf(name, Tail(where_expr))

\* one condition on node n: the comparison, negated under NOT
CondHolds(c, n) ==
  IF c.isnot THEN RowOf(dframe, n)[c.single.metric] # c.single.str
  ELSE RowOf(dframe, n)[c.single.metric] = c.single.str

\* ((c1 o2 c2) o3 c3) ...: the conditions of a name combined from left to
\* right; the connective before the first of them is not used
RECURSIVE LeftToRight(_, _, _)
LeftToRight(conds, n, acc) ==
  IF conds = <<>> THEN acc
  ELSE LeftToRight(Tail(conds), n,
                   IF Head(conds).rule = "OrPred" THEN acc \/ CondHolds(Head(conds), n)
                   ELSE acc /\ CondHolds(Head(conds), n))

NameHolds(name, n) ==
  LET conds == CondsOf(name, hist.where_expr)
  IN IF name = NoName \/ conds = <<>> THEN TRUE
     ELSE LeftToRight(Tail(conds), n, CondHolds(Head(conds), n))

\* the paths on which each node satisfies the conditions of the name at its
\* position in MATCH
NamedPaths ==
  {p \in DownPaths(parent) :
     /\ Len(p) = Len(hist.match_expr)
     /\ \A j \in 1..Len(p) : NameHolds(hist.match_expr[j].name, p[j])}

Referenced(name) == name = NoName \/ CondsOf(name, hist.where_expr) # <<>>

EveryNameReferenced == \A j \in 1..Len(hist.match_expr) : Referenced(hist.match_expr[j].name)

\* C19: the conditions of a bound name are combined from left to right with
\* AND and OR at equal precedence, NOT negates the one condition after it,
\* and the connective before the first condition of a name is not part of
\* that name's predicate
C19_ConditionsCombineLeftToRight ==
  (pc \in {"failed", "done"} /\ EveryNameReferenced) => (pc = "done" /\ Selects(PathNodes(NamedPaths)))

\* the same for the queries whose conditions all belong to the first name and
\* in which no AND follows an OR
C19_LeftToRightWithoutAndAfterOr ==
  (/\ pc \in {"failed", "done"}
   /\ EveryNameReferenced
   /\ \A j \in 1..Len(hist.where_expr) : hist.where_expr[j].single.name = "p"
   /\ \A j, k \in 1..Len(hist.where_expr) :
        (j < k /\ hist.where_expr[j].rule = "OrPred") => hist.where_expr[k].rule # "AndPred")
    => (pc = "done" /\ Selects(PathNodes(NamedPaths)))

\* the MATCH clause with the names that no condition mentions left out
WithoutUnreferencedNames ==
  [j \in 1..Len(hist.match_expr) |->
     IF Referenced(hist.match_expr[j].name) THEN hist.match_expr[j]
     ELSE NodeExpr(IF hist.match_expr[j].quant = NoQuant THEN StrQ(".")
                   ELSE hist.match_expr[j].quant, NoName)]

\* what constructing and applying a query gives on a new engine
Evaluated(match_expr, where_expr) ==
  LET r == StringQueryInit(match_expr, where_expr)
  IN IF r.err # "none" THEN Raised(r.err)
     ELSE EngineApply(FreshEngine, parent, dframe, QueryOf(r.query_pattern), "off").res

\* C20: a node that has a name in MATCH but no condition in WHERE gets the
\* always-true predicate, like an unnamed node: the query is constructed and
\* evaluated with the outcome of the query in which that node has no name
C20_UnreferencedNameIsAlwaysTrue ==
  (pc \in {"failed", "done"} /\ ~EveryNameReferenced)
    => result = Evaluated(WithoutUnreferencedNames, hist.where_expr)

\* an unnamed node matches every node
C20_UnnamedNodeMatchesEveryNode ==
  (/\ pc = "done"
   /\ hist.match_expr = <<NodeExpr(NoQuant, "p"), NodeExpr(StrQ("."), NoName)>>
   /\ Len(hist.where_expr) = 1 /\ hist.where_expr[1].single.name = "p")
    => Selects(PathNodes(NamedPaths))

\* ------------------------------- parse_string_dialect (v2/string_dialect.py)
\* A query string, as parse_string_dialect reads it.  Without braces it is
\* 'MATCH match_expr WHERE where_expr'.  With braces it is a sequence of
\* brace-delimited groups with the text ops[i] between group i and group
\* i + 1, after the text 'MATCH match_expr WHERE' when header holds.  A group
\* holds a whole query 'MATCH match_expr WHERE where_expr' (kind "query"), the
\* conditions where_expr alone (kind "cond"), or neither (kind "other").
BraceGroup(kind, match_expr, where_expr) ==
  [kind |-> kind, match_expr |-> match_expr, where_expr |-> where_expr]

QueryString(header, match_expr, where_expr, groups, ops) ==
  [header |-> header, match_expr |-> match_expr, where_expr |-> where_expr,
   groups |-> groups, ops |-> ops]

\* Python's None where a query object is expected
NoneQuery == [cls |-> "NoneType", query_pattern |-> <<>>, subqueries |-> <<>>]

\* line 482: substr.startswith("MATCH")
StartsWithMatch(g) == g.kind = "query"

\* line 493: re.match(r"[a-zA-Z0-9_]+\..*", substr): the text begins with a
\* name and a dot, which a condition does unless it begins with NOT
MatchesCondition(g) ==
  g.kind = "cond" /\ g.where_expr # <<>> /\ ~g.where_expr[1].isnot

\* lines 494-499: the region counts as lying inside a whole-query region when
\* it starts at or after the start of one, or ends at or before the end of
\* one; the groups stand in the text in the order of their indexes
IsEncapsulatedRegion(i, query_idxes) ==
  \E k \in 1..Len(query_idxes) : i >= query_idxes[k] \/ i <= query_idxes[k]

CompoundOps == {"AND", "OR", "XOR"}

\* lines 477-521, the loop over the groups from group i on.  A list that the
\* code keeps as None until its first append is the empty sequence here.
RECURSIVE ScanGroups(_, _, _, _, _, _)
ScanGroups(s, i, condition_list, query_list, query_idxes, compound_ops) ==
  IF i > Len(s.groups)
    THEN [err |-> "none", condition_list |-> condition_list,
          query_list |-> query_list, compound_ops |-> compound_ops]
  ELSE LET g == s.groups[i]
           failed == [err |-> "ValueError", condition_list |-> condition_list,
                      query_list |-> query_list, compound_ops |-> compound_ops]
           ops == IF i < Len(s.groups) THEN Append(compound_ops, s.ops[i])
                  ELSE compound_ops
           opOk == i < Len(s.groups) => s.ops[i] \in CompoundOps
       IN IF StartsWithMatch(g)
            THEN IF opOk
                   THEN ScanGroups(s, i + 1, condition_list, Append(query_list, g),
                                   Append(query_idxes, i), ops)
                 ELSE failed
          ELSE IF MatchesCondition(g)
            THEN IF IsEncapsulatedRegion(i, query_idxes)
                   THEN ScanGroups(s, i + 1, condition_list, query_list,
                                   query_idxes, compound_ops)
                 ELSE IF opOk
                   THEN ScanGroups(s, i + 1, Append(condition_list, g), query_list,
                                   query_idxes, ops)
                 ELSE failed
          ELSE failed

\* full_query & next_query, | and ^ (v2/__init__.py lines 42-44)
OperatorClass(op) ==
  IF op = "AND" THEN "ConjunctionQuery"
  ELSE IF op = "OR" THEN "DisjunctionQuery"
  ELSE "ExclusiveDisjunctionQuery"

RECURSIVE ParseStringDialect(_)
RECURSIVE CombineLoop(_, _, _, _, _)

\* the Query that a StringQuery is: r is what StringQuery.__init__ gave
AsQuery(r) == [err |-> r.err, query |-> QueryOf(r.query_pattern)]

\* the query of the k-th collected region: StringQuery on the shared MATCH
\* clause and the region's conditions (lines 544-557), or parse_string_dialect
\* on the region's whole query (lines 574-580)
RegionQuery(s, regions, k, whole) ==
  IF whole
    THEN ParseStringDialect(QueryString(FALSE, regions[k].match_expr,
                                        regions[k].where_expr, <<>>, <<>>))
  ELSE AsQuery(StringQueryInit(s.match_expr, regions[k].where_expr))

\* lines 558-565 and 581-592: full_query becomes the compound query c
Combined(s, regions, whole, i, c) ==
  IF c.err # "none" THEN [err |-> c.err, query |-> NoneQuery]
  ELSE CombineLoop(s, regions, whole, i + 1, c.query)

\* one pass of the loop: first is full_query, the query of the first region
\* in the first pass, and next_query is the query of region i + 1
CombineStep(s, regions, whole, i, first, next_query) ==
  IF first.err # "none" THEN [err |-> first.err, query |-> NoneQuery]
  ELSE IF next_query.err # "none" THEN [err |-> next_query.err, query |-> NoneQuery]
  ELSE Combined(s, regions, whole, i,
                CompoundSubclassInit(OperatorClass(s.compound_ops[i]),
                                     <<ArgQuery(first.query), ArgQuery(next_query.query)>>))

\* lines 541-566 and 577-593: the loop over compound_ops from operator i on
CombineLoop(s, regions, whole, i, full_query) ==
  IF i > Len(regions) - 1 THEN [err |-> "none", query |-> full_query]
  ELSE CombineStep(s, regions, whole, i,
                   IF i = 1 THEN RegionQuery(s, regions, 1, whole)
                   ELSE [err |-> "none", query |-> full_query],
                   RegionQuery(s, regions, i + 1, whole))

\* lines 522-593: what is built from the lists the loop over the groups gave
FromScan(s, scan) ==
  IF scan.err # "none" THEN [err |-> scan.err, query |-> NoneQuery]
  ELSE IF scan.condition_list # <<>> /\ scan.query_list # <<>>
    THEN [err |-> "ValueError", query |-> NoneQuery]
  ELSE IF scan.condition_list # <<>>
    THEN IF Len(scan.condition_list) # Len(scan.compound_ops) + 1
           THEN [err |-> "ValueError", query |-> NoneQuery]
         ELSE IF ~s.header THEN [err |-> "AttributeError", query |-> NoneQuery]
         ELSE CombineLoop([compound_ops |-> scan.compound_ops, match_expr |-> s.match_expr],
                          scan.condition_list, FALSE, 1, NoneQuery)
  ELSE IF Len(scan.query_list) # Len(scan.compound_ops) + 1
    THEN [err |-> "ValueError", query |-> NoneQuery]
  ELSE CombineLoop([compound_ops |-> scan.compound_ops, match_expr |-> s.match_expr],
                   scan.query_list, TRUE, 1, NoneQuery)

\* parse_string_dialect(query_str): [err, query]
ParseStringDialect(s) ==
  IF Len(s.groups) = 0 THEN AsQuery(StringQueryInit(s.match_expr, s.where_expr))
  ELSE FromScan(s, ScanGroups(s, 1, <<>>, <<>>, <<>>, <<>>))

\* ------------------------------------------------------------ SpecParse
\* A query string with up to MaxGroups brace-delimited groups is parsed and
\* the query it gives is applied.  The MATCH clause is (p) or (p)->("."), the
\* same in the header and in every whole-query group; the conditions compare
\* the column name.
MaxGroups == 3

SharedMatches ==
  {<<NodeExpr(NoQuant, "p")>>, <<NodeExpr(NoQuant, "p"), NodeExpr(StrQ("."), NoName)>>}

Fragments ==
  {<<CompoundPred("UnaryPred", FALSE, StringEq("p", "name", "a"))>>,
   <<CompoundPred("UnaryPred", FALSE, StringEq("p", "name", "b"))>>,
   <<CompoundPred("UnaryPred", TRUE, StringEq("p", "name", "a"))>>}

GroupsOf(m) ==
  {BraceGroup("query", m, w) : w \in Fragments}
    \cup {BraceGroup("cond", <<>>, w) : w \in Fragments}
    \cup {BraceGroup("other", <<>>, <<>>)}

\* the strings with n groups for the MATCH clause m: with or without the
\* header, and with one of AND, OR, XOR or another text between two groups
BracedStrings(m, n) ==
  {QueryString(h, m, <<>>, gs, os) :
     h \in BOOLEAN, gs \in [1..n -> GroupsOf(m)],
     os \in [1..(n - 1) -> CompoundOps \cup {"other"}]}

\* the strings without braces
PlainStrings(m) == {QueryString(FALSE, m, w, <<>>, <<>>) : w \in Fragments}

InitParse ==
  /\ GraphAndTable(SmallNodes)
  /\ query = QueryOf(<<>>)
  /\ mode = "off"
  /\ candidates = <<>>
  /\ path_cache = EmptyCache
  /\ result = Returned(<<>>)
  /\ pc = "new"
  /\ hist = QueryString(FALSE, <<>>, <<>>, <<>>, <<>>)

\* the variables after parse_string_dialect(s) gave r
AfterParse(s, r) ==
  /\ query' = r.query
  /\ result' = Outcome(r)
  /\ pc' = IF r.err = "none" THEN "ready" ELSE "failed"
  /\ hist' = s

\* parse_string_dialect(query_str)
NewParsedQuery ==
  /\ pc = "new"
  /\ \E m \in SharedMatches, n \in 0..MaxGroups :
       \E s \in IF n = 0 THEN PlainStrings(m) ELSE BracedStrings(m, n) :
         AfterParse(s, ParseStringDialect(s))
  /\ UNCHANGED <<parent, dframe, mode, candidates, path_cache>>

NextParse == NewParsedQuery \/ Apply

SpecParse == InitParse /\ [][NextParse]_vars

\* what parsing a string and applying the query it gives returns on a new
\* engine
ParsedAndApplied(s) ==
  LET r == ParseStringDialect(s)
  IN IF r.err # "none" THEN Raised(r.err)
     ELSE EngineApply(FreshEngine, parent, dframe, r.query, "off").res

\* 'MATCH m WHERE {c1} o1 {c2} ...' with two or more groups
WhereForm ==
  /\ hist.header
  /\ Len(hist.groups) >= 2
  /\ \A j \in 1..Len(hist.groups) : hist.groups[j].kind = "cond"
  /\ \A j \in 1..Len(hist.ops) : hist.ops[j] \in CompoundOps

\* '{MATCH m WHERE c1} o1 {MATCH m WHERE c2} ...' for the same m, c and o
WholeQueryForm ==
  QueryString(FALSE, hist.match_expr, <<>>,
              [j \in 1..Len(hist.groups) |->
                 BraceGroup("query", hist.match_expr, hist.groups[j].where_expr)],
              hist.ops)

\* the nodes that 'MATCH m WHERE c' returns for the conditions of group j
GroupNodes(j) ==
  SeqSet(ParsedAndApplied(QueryString(FALSE, hist.match_expr,
                                      hist.groups[j].where_expr, <<>>, <<>>)).nodes)

\* ((g1 o1 g2) o2 g3) ...: the node sets of the first n groups combined from
\* left to right
RECURSIVE GroupsLeftToRight(_)
GroupsLeftToRight(n) ==
  IF n = 1 THEN GroupNodes(1)
  ELSE LET acc == GroupsLeftToRight(n - 1)
       IN IF hist.ops[n - 1] = "AND" THEN acc \cap GroupNodes(n)
          ELSE IF hist.ops[n - 1] = "OR" THEN acc \cup GroupNodes(n)
          ELSE SymmetricDifference(acc, GroupNodes(n))

\* C21: for a shared MATCH clause m, conditions c1..cn and operators AND, OR,
\* XOR, the query parsed from 'MATCH m WHERE {c1} o1 {c2} ...' returns the
\* node set that the query parsed from '{MATCH m WHERE c1} o1 {MATCH m WHERE
\* c2} ...' returns, which is the groups' node sets combined left to right,
\* ((g1 o1 g2) o2 g3) ...
C21_FragmentFormSameAsWholeQueryForm ==
  (pc \in {"failed", "done"} /\ WhereForm) =>
    /\ result.err = "none"
    /\ ParsedAndApplied(WholeQueryForm).err = "none"
    /\ SeqSet(result.nodes) = SeqSet(ParsedAndApplied(WholeQueryForm).nodes)
    /\ SeqSet(result.nodes) = GroupsLeftToRight(Len(hist.groups))

\* no condition in braces begins with NOT
NoGroupBeginsWithNot ==
  \A j \in 1..Len(hist.groups) : ~hist.groups[j].where_expr[1].isnot

\* the same, for conditions that do not begin with NOT; and the whole-query
\* form returns the combination from left to right whatever the conditions
C21_SameWhenNoFragmentBeginsWithNot ==
  (pc \in {"failed", "done"} /\ WhereForm) =>
    /\ ParsedAndApplied(WholeQueryForm).err = "none"
    /\ SeqSet(ParsedAndApplied(WholeQueryForm).nodes) = GroupsLeftToRight(Len(hist.groups))
    /\ NoGroupBeginsWithNot =>
         /\ result.err = "none"
         /\ SeqSet(result.nodes) = GroupsLeftToRight(Len(hist.groups))

\* the string has a group that holds a whole query and a group that holds
\* only a WHERE-clause fragment
MixedGrouping ==
  /\ \E j \in 1..Len(hist.groups) : hist.groups[j].kind = "query"
  /\ \E j \in 1..Len(hist.groups) : hist.groups[j].kind = "cond"

\* C22: parse_string_dialect rejects, and never returns a query for, every
\* string in which some brace-delimited groups hold whole MATCH...WHERE
\* queries and others hold only WHERE-clause fragments, whatever the number
\* and order of the groups
C22_MixedGroupingNeverGivesQuery ==
  (pc # "new" /\ MixedGrouping) => pc = "failed"

\* a mixed string that is rejected is rejected with ValueError, and it is
\* rejected when its first group is a fragment
C22_MixedGroupingRejectedIsValueError ==
  (pc # "new" /\ MixedGrouping) =>
    /\ pc = "failed" => result.err = "ValueError"
    /\ hist.groups[1].kind = "cond" => pc = "failed"

\* C30: every call to parse_string_dialect that does not raise returns a
\* Query or CompoundQuery object, never None, for every number of
\* brace-delimited groups, exactly one group included
C30_ParseNeverReturnsNone ==
  pc \in {"ready", "done"} => query.cls \in {"Query"} \cup CompoundClasses

\* with two or more groups the call raises or returns a query object
C30_ParseOfSeveralGroupsNeverReturnsNone ==
  (pc \in {"ready", "done"} /\ Len(hist.groups) # 1)
    => query.cls \in {"Query"} \cup CompoundClasses

\* -------------------------------------------------------- SpecOperators
\* The operators on Query and CompoundQuery (v2/__init__.py lines 26-51).
\* hist holds the two operand objects, as they were given and as they are
\* after the expression; query is the value of the expression.
AssignedMethods == {"__and__", "__or__", "__xor__", "__not__"}

\* the special method that Python calls for an operator
SpecialMethod(op) ==
  CASE op = "&" -> "__and__" [] op = "|" -> "__or__" [] op = "^" -> "__xor__"
    [] op = "~" -> "__invert__"

\* combine_via_conjunction, combine_via_disjunction,
\* combine_via_exclusive_disjunction and negate_query, by the name they are
\* assigned to
MethodClass(method) ==
  CASE method = "__and__" -> "ConjunctionQuery" [] method = "__or__" -> "DisjunctionQuery"
    [] method = "__xor__" -> "ExclusiveDisjunctionQuery" [] method = "__not__" -> "NegationQuery"

\* a op b, or op a for the unary operator: TypeError when the operand's class
\* has no method of the name Python looks up
OperatorExpr(op, operands) ==
  IF SpecialMethod(op) \notin AssignedMethods
    THEN [err |-> "TypeError", query |-> NoneQuery]
  ELSE CompoundSubclassInit(MethodClass(SpecialMethod(op)),
                            [j \in 1..Len(operands) |-> ArgQuery(operands[j])])

Operands ==
  SubqueryPool
    \cup {CompoundOf("ConjunctionQuery",
                     <<QueryOf(<<Element(".", "any")>>), QueryOf(<<Element(".", "b")>>)>>),
          CompoundOf("NegationQuery", <<QueryOf(<<Element("*", "any"), Element(".", "b")>>)>>)}

InitOperators ==
  /\ parent = <<0>>
  /\ dframe = <<"a">>
  /\ query = NoneQuery
  /\ mode = "off"
  /\ candidates = <<>>
  /\ path_cache = EmptyCache
  /\ result = Returned(<<>>)
  /\ pc = "new"
  /\ \E a \in Operands, b \in Operands :
       hist = [given |-> <<a, b>>, operands |-> <<a, b>>]

\* the expression on the operands kept in hist: a op b, or ~a
Evaluate(op) ==
  /\ pc = "new"
  /\ LET r == OperatorExpr(op, IF op = "~" THEN <<hist.operands[1]>> ELSE hist.operands)
     IN /\ query' = IF r.err = "none" THEN r.query ELSE query
        /\ result' = Outcome(r)
  /\ pc' = op
  /\ UNCHANGED <<parent, dframe, mode, candidates, path_cache, hist>>

And == Evaluate("&")
Or == Evaluate("|")
Xor == Evaluate("^")
Invert == Evaluate("~")

NextOperators == And \/ Or \/ Xor \/ Invert

SpecOperators == InitOperators /\ [][NextOperators]_vars

\* the expression gave a new compound query of class cls whose subqueries are
\* the operands in order, and the operands are as they were given
Built(cls, operands) ==
  /\ result.err = "none"
  /\ query = CompoundOf(cls, operands)
  /\ hist.operands = hist.given

\* C23: a & b, a | b, a ^ b and ~a each return a new compound query
\* (conjunction, disjunction, exclusive disjunction, negation) whose
\* subqueries are exactly the operands in order, and leave a and b unchanged
C23_OperatorsBuildCompoundQueries ==
  /\ pc = "&" => Built("ConjunctionQuery", hist.given)
  /\ pc = "|" => Built("DisjunctionQuery", hist.given)
  /\ pc = "^" => Built("ExclusiveDisjunctionQuery", hist.given)
  /\ pc = "~" => Built("NegationQuery", <<hist.given[1]>>)

\* the three binary operators do
C23_BinaryOperatorsBuildCompoundQueries ==
  /\ pc = "&" => Built("ConjunctionQuery", hist.given)
  /\ pc = "|" => Built("DisjunctionQuery", hist.given)
  /\ pc = "^" => Built("ExclusiveDisjunctionQuery", hist.given)

\* ------------------------------------- claims on SpecEngine: the path cache
\* what the call of _find_matches_from_node for node n and position i
\* returns when it computes its value
Computed(n, i) ==
  FindMatches(parent, query.query_pattern, candidates, n, i, EmptyCache)

\* C25: the path cache is transparent: the value that a request for (node,
\* position) gets from the cache is the value that the call which stored the
\* entry returned, so that every caller can iterate each returned completion
\* as a sequence of nodes, and apply does not fail on a value from the cache
C25_CacheHoldsWhatTheCallReturned ==
  pc = "done" =>
    /\ result.err # "TypeError"
    /\ \A k \in DOMAIN path_cache :
         ~Computed(k[1], k[2]).err =>
           path_cache[k] = [none |-> Computed(k[1], k[2]).none,
                            items |-> Computed(k[1], k[2]).items]

\* an entry differs from the value returned only where the call returned the
\* one-node completion (n,) and stored the node n itself
C25_CacheDiffersOnlyForSingleNodeCompletions ==
  pc = "done" =>
    \A k \in DOMAIN path_cache :
      ~Computed(k[1], k[2]).err =>
        \/ path_cache[k] = [none |-> Computed(k[1], k[2]).none,
                            items |-> Computed(k[1], k[2]).items]
        \/ /\ path_cache[k] = SingleCached(k[1])
           /\ Computed(k[1], k[2]).items = {Tup(<<k[1]>>)}

\* ---------------------------------- claims on SpecEngine: a leading "*"
RECURSIVE Ancestors(_, _)
Ancestors(par, n) == IF par[n] = 0 THEN {} ELSE {par[n]} \cup Ancestors(par, par[n])

\* a path that starts at node n matches the pattern after its first element
RestCompletesFrom(n) ==
  \E path \in DownPathsFrom(parent, n) :
    MatchesFrom(dframe, path, 1, Tail(query.query_pattern), 1)

\* C26: when the pattern begins with a "*" element, a node that satisfies the
\* second element's predicate and from which the rest of the pattern
\* completes is in the result, even when neither the node nor any of its
\* ancestors satisfies the predicate of the "*" element
C26_LeadingStarMatchesZeroNodes ==
  (pc = "done" /\ Len(query.query_pattern) >= 2 /\ query.query_pattern[1].q = "*") =>
    \A n \in DOMAIN parent :
      (/\ PredHolds(query.query_pattern[2].p, RowOf(dframe, n))
       /\ RestCompletesFrom(n)
       /\ \A a \in {n} \cup Ancestors(parent, n) :
            ~PredHolds(query.query_pattern[1].p, RowOf(dframe, a)))
        => (result.err = "none" /\ n \in SeqSet(result.nodes))

\* no node is returned unless it or one of its ancestors satisfies the
\* predicate of the leading "*" element
C26_StartsOnlyAtNodesThatSatisfyTheStar ==
  (pc = "done" /\ Len(query.query_pattern) >= 2 /\ query.query_pattern[1].q = "*") =>
     \A n \in SeqSet(result.nodes) :
       \E a \in {n} \cup Ancestors(parent, n) :
         PredHolds(query.query_pattern[1].p, RowOf(dframe, a))

\* ----------------------------------------------------------- SpecSearch
\* one evaluation of a pattern of up to MaxPathLen elements on a graph of up
\* to MaxNodes nodes
InitSearch ==
  /\ GraphAndTable(MaxNodes)
  /\ query \in {QueryOf(p) : p \in Patterns(GoodPreds, MaxPathLen)}
  /\ mode = "off"
  /\ candidates = <<>>
  /\ path_cache = EmptyCache
  /\ result = Returned(<<>>)
  /\ pc = "ready"
  /\ hist = <<>>

NextSearch == Apply

SpecSearch == InitSearch /\ [][NextSearch]_vars

\* ------------------------- claims on SpecSearch: expansions of the children
\* The events of one evaluation, in order: <<"hit", n, i>> when the call of
\* _find_matches_from_node for node n and position i is answered from the
\* cache (lines 107-108), <<"expand", n, i>> when it enters the loop over the
\* children of n (line 157).  The calls are those that FindMatches makes, with
\* the cache that each of them is given.
RECURSIVE EventsOfCall(_, _, _)
RECURSIVE EventsOfChildren(_, _, _)

EventsOfCall(n, i, cache) ==
  LET pat == query.query_pattern
      kids == SortedSeq(Children(parent, n))
  IN IF <<n, i>> \in DOMAIN cache THEN << <<"hit", n, i>> >>
     ELSE IF pat[i].q = "."
       THEN IF n \notin candidates[i] \/ i = Len(pat)
                 \/ (i = Len(pat) - 1 /\ pat[i + 1].q = "*")
              THEN <<>>
            ELSE << <<"expand", n, i>> >> \o EventsOfChildren(kids, i + 1, cache)
     ELSE IF i < Len(pat) /\ n \in candidates[i + 1] THEN EventsOfCall(n, i + 1, cache)
     ELSE IF n \notin candidates[i] \/ (i = Len(pat) /\ kids = <<>>) THEN <<>>
     ELSE << <<"expand", n, i>> >> \o EventsOfChildren(kids, i, cache)

\* the calls for the children in kids, or for the starting candidates when
\* i = 1 and kids are the candidates: each is given the cache that the call
\* before it left, and none is made after a call that raised or whose value
\* could not be iterated
EventsOfChildren(kids, i, cache) ==
  IF kids = <<>> THEN <<>>
  ELSE LET sub == FindMatches(parent, query.query_pattern, candidates, Head(kids), i, cache)
       IN EventsOfCall(Head(kids), i, cache)
            \o (IF sub.err \/ (~sub.none /\ \E it \in sub.items : ~it.tup /\ ~NodeIsIterable)
                  THEN <<>>
                ELSE EventsOfChildren(Tail(kids), i, sub.cache))

\* the events of _apply_impl
Events == EventsOfChildren(SortedSeq(candidates[1]), 1, EmptyCache)

ModePool ==
  {QueryOf(pat) : pat \in {
     <<Element(".", "a")>>,
     <<Element("*", "a")>>,
     <<Element(".", "any"), Element(".", "a")>>}}

ModeOperands == ModePool \cup Negations(ModePool)

ModeQueries ==
  {CompoundOf(cls, <<p, q>>) : cls \in NaryClasses, p \in ModeOperands, q \in ModePool}
    \cup Negations(ModePool)
    \cup Negations({CompoundOf(cls, <<p, q>>) : cls \in NaryClasses, p \in ModePool, q \in ModePool})

InitModes ==
  /\ GraphAndRanks(SmallNodes)
  /\ query \in ModeQueries
  /\ mode = "off"
  /\ candidates = <<>>
  /\ path_cache = EmptyCache
  /\ result = Returned(<<>>)
  /\ pc = "ready"
  /\ hist = <<>>

NextModes == ApplyInMode

SpecModes == InitModes /\ [][NextModes]_vars

\* what the query gives when every pattern in it, at every depth, is applied
\* in mode m on a new engine and the node sets are combined by the classes
RECURSIVE InModeEverywhere(_, _)
RECURSIVE SubqueriesInMode(_, _, _)

SubqueriesInMode(subs, m, results) ==
  IF subs = <<>> THEN [err |-> "none", results |-> results]
  ELSE LET out == InModeEverywhere(Head(subs), m)
       IN IF out.err # "none" THEN [err |-> out.err, results |-> results]
          ELSE SubqueriesInMode(Tail(subs), m, Append(results, out.nodes))

InModeEverywhere(q, m) ==
  IF q.cls = "Query" THEN EngineApply(FreshEngine, parent, dframe, q, m).res
  ELSE LET loop == SubqueriesInMode(q.subqueries, m, <<>>)
       IN IF loop.err # "none" THEN Raised(loop.err)
          ELSE Returned(ApplyOpToResults(q.cls, loop.results, parent))

\* C29: apply(compound, graph, dframe, mode) gives what combining the
\* subqueries' node sets under that same mode gives, at every depth, and an
\* unrecognised mode is rejected with ValueError
C29_ModeGovernsEverySubquery ==
  pc = "done" =>
    /\ result = InModeEverywhere(query, mode)
    /\ mode \notin AvailableModes => result.err = "ValueError"

\* C29, as the code behaves: whatever mode is given, the subqueries are
\* applied in "off", so the mode is neither used nor validated
C29_SubqueriesRunInOffWhateverTheMode ==
  pc = "done" => result = InModeEverywhere(query, "off")

\* C29, where the mode cannot matter: on a table with one row per node the
\* three recognised modes give the same node set
C29_RecognisedModeOnSingleIndexedTable ==
  (pc = "done" /\ ~dframe.multi /\ mode \in AvailableModes) =>
    result = InModeEverywhere(query, mode)

C29_ModeIgnoredSeen ==
  /\ pc = "done"
  /\ dframe.multi
  /\ mode = "any"
  /\ result.err = "MultiIndexModeMismatch"
  /\ InModeEverywhere(query, mode).err = "none"

C29_BogusModeAcceptedSeen ==
  pc = "done" /\ mode = "bogus" /\ result.err = "none"


\* ------------------------------------------------------------ SpecOrder
\* one evaluation of a pattern on a graph of up to MaxNodes nodes; the
\* patterns are a pool of one to three elements, with and without '*'
OrderPool ==
  {QueryOf(pat) : pat \in {
     <<Element(".", "any")>>,
     <<Element("*", "any")>>,
     <<Element(".", "a"), Element(".", "b")>>,
     <<Element(".", "any"), Element(".", "any")>>,
     <<Element(".", "a"), Element("*", "any")>>,
     <<Element(".", "any"), Element("*", "b")>>,
     <<Element("*", "any"), Element(".", "b")>>,
     <<Element("*", "a"), Element(".", "b")>>,
     <<Element("*", "a"), Element("*", "b")>>,
     <<Element("*", "any"), Element("*", "any")>>,
     <<Element(".", "a"), Element(".", "any"), Element(".", "b")>>,
     <<Element(".", "any"), Element(".", "any"), Element(".", "any")>>,
     <<Element(".", "any"), Element("*", "any"), Element(".", "b")>>,
     <<Element(".", "a"), Element("*", "b"), Element(".", "a")>>,
     <<Element("*", "any"), Element(".", "a"), Element("*", "any")>>,
     <<Element("*", "a"), Element(".", "any"), Element(".", "b")>>}}

InitOrder ==
  /\ GraphAndTable(MaxNodes)
  /\ query \in OrderPool
  /\ mode = "off"
  /\ candidates = <<>>
  /\ path_cache = EmptyCache
  /\ result = Returned(<<>>)
  /\ pc = "ready"
  /\ hist = <<>>

NextOrder == Apply

SpecOrder == InitOrder /\ [][NextOrder]_vars

\* -------------------------------- claims on SpecOrder: the visiting order
\* The engine visits the starting candidates in the order of their sort key
\* (line 91) and the children of a node in the order of its list of children
\* (line 157).  In the model both are the order of the node numbers, so
\* another order of the children is the same graph with its nodes renumbered,
\* and another order of the starts is another sequence handed to the loop.
\* the sequences that hold every element of S once
OrdersOf(S) ==
  {o \in [1..Cardinality(S) -> S] : \A j, k \in 1..Cardinality(S) : j # k => o[j] # o[k]}

\* the node that order gives number m
NodeAt(order, m) == CHOOSE n \in DOMAIN order : order[n] = m

\* the graph with node n numbered order[n]
Renumbered(par, order) ==
  [m \in DOMAIN par |->
     IF par[NodeAt(order, m)] = 0 THEN 0 ELSE order[par[NodeAt(order, m)]]]

RenumberedCandidates(cands, order) ==
  [i \in DOMAIN cands |-> {order[n] : n \in cands[i]}]

\* what _apply_impl returns when the children are iterated by order and the
\* starting candidates are tried as the sequence starts
InOrder(order, starts) ==
  LET out == StartLoop(Renumbered(parent, order), query.query_pattern,
                       RenumberedCandidates(candidates, order),
                       [j \in DOMAIN starts |-> order[starts[j]]], EmptyCache, {}).res
  IN IF out.err # "none" THEN out
     ELSE Returned(SortedSeq({NodeAt(order, m) : m \in SeqSet(out.nodes)}))

====
